---- MODULE Spec2Model ----
(***************************************************************************)
(* flux-studio: the file-based agent communication protocol.               *)
(*                                                                         *)
(*   SpecWrite  FileComm.write_json / read_json on one final path, at the  *)
(*              grain of the file-system calls they make.                  *)
(*   Spec       AgentRegistry task lifecycle (create/update/cancel), each  *)
(*              operation run to completion by the single owner.           *)
(*   SpecWatch  FileComm.watch_directory driven by                         *)
(*              AgentRegistry.start_watching / stop_watching, at the grain *)
(*              of the watcher coroutine's suspension points.              *)
(*   SpecRace   two writers running FileComm.write_json on one final path. *)
(*   SpecStore  task files written by hand, read by get_tasks / get_task   *)
(*              and removed by cleanup_completed_tasks.                    *)
(*   SpecConfig flux_agents.json under load_agent_config / init_workspace. *)
(*   SpecMessages  inbox and outbox under send_message,                    *)
(*              acknowledge_message and the message scans.                 *)
(*   SpecCodec  to_dict / from_dict of AgentTask and AgentMessage, and the *)
(*              JSON text written and read back.                           *)
(*   SpecNotify task callbacks registered by on_task_update.               *)
(*   SpecFaults message and task files in directories made read-only.      *)
(*   SpecOrder  the order in which the watcher delivers inbox files.       *)
(*   SpecEditor VimTextArea key handling and MarkdownEditor.new_file.      *)
(*   SpecApp    FluxStudioApp start: compose, on_mount and the submission  *)
(*              of a task from the agent panel.                            *)
(*   SpecCancelRace  update_task and cancel_task of one task interleaved   *)
(*              at their suspension points.                                *)
(*   SpecCleanupRace  cleanup_completed_tasks against an agent rewriting   *)
(*              the task file.                                             *)
(*   SpecInbox  get_inbox_messages and acknowledge_message on files an     *)
(*              agent posts.                                               *)
(*   SpecIdle   files that appear while no watcher is set.                 *)
(*   SpecTicks  what the watcher reports of a name across its ticks.       *)
(*   SpecFanout the message callbacks called for one observed message.     *)
(*   SpecAutosave  MarkdownEditor load_file / save_file and the debounced  *)
(*              autosave backup.                                           *)
(***************************************************************************)
EXTENDS Integers, Sequences, FiniteSets, TLC

VARIABLES
    \* ---- file layer (SpecWrite) ----
    dir,        \* directory entries: path -> inode number, 0 when no entry
    inode,      \* inode number -> content, a sequence of chunks
    ninode,     \* inodes allocated so far
    wpc,        \* writer -> position inside write_json
    wdoc,       \* writer -> the document it is writing
    wfd,        \* writer -> inode of its open temp handle
    woff,       \* writer -> chunks written through the handle
    wold,       \* writer -> value of the final path when its write began
    rpc,        \* reader position inside read_json
    rfd,        \* inode the reader has open
    rres,       \* what read_json returned
    rcands,     \* values the final path held while the read was running
    \* ---- task registry (Spec) ----
    tasks,      \* task id -> stored task document, or Absent
    used,       \* ids handed out by _generate_id so far
    now,        \* the clock read by _now_iso
    phase,      \* task id -> how far the create/start/complete sequence got
    ret,        \* what the last registry operation returned
    nops,       \* registry operations issued so far
    ran,        \* task id -> whether its status has been RUNNING since creation
    \* ---- inbox watcher (SpecWatch) ----
    inboxdir,   \* whether the inbox directory exists
    inbox,      \* file name -> kind of content, "absent" when no such file
    ncb,        \* length of _message_callbacks
    watcher_task, \* _watcher_task: the watcher it refers to, 0 for None
    nwatch,     \* watcher coroutines created so far
    watch,      \* watcher -> [pc, seen, current, queue, cbidx]
    life,       \* file name -> what the watcher's history says of the file
    pcalls,     \* file name -> watch_directory callback calls for the file
    calls,      \* file name -> message callback -> invocations for the file
    raised,     \* whether a watcher callback has raised
    nenv,       \* files the agents have written into the inbox so far
    \* ---- workspace store (SpecStore, SpecConfig, SpecMessages) ----
    workspace_dir, \* whether .flux-studio/ and its directories exist
    tasks_dir,  \* task file name -> the document in tasks/
    inbox_dir,  \* message file name -> the document in messages/inbox/
    outbox_dir, \* message file name -> the document in messages/outbox/
    orchestrator, \* the document at orchestrator.json
    flux_agents,  \* the document at flux_agents.json
    registered_agents, \* _registered_agents
    msgs,       \* message ids handed out by _generate_id so far
    sret,       \* what the last store operation returned or raised
    nhand,      \* documents written by hand or by agents so far
    \* ---- protocol codec (SpecCodec) ----
    value,      \* the AgentTask or AgentMessage object the caller holds
    encoded,    \* the dictionary to_dict made of it
    decoded,    \* what from_dict made of that dictionary
    text,       \* the JSON text write_json stored for it
    got,        \* what get_task made of the stored text
    \* ---- task callbacks (SpecNotify) ----
    ntcb,       \* length of _task_callbacks
    tcalls,     \* task id -> invocations of the task callbacks for the task
    due,        \* task id -> its file was written while watching was active
                \* and a task callback was registered
    \* ---- storage faults (SpecFaults) ----
    readonly,   \* whether tasks/, inbox/ and outbox/ deny writes (mode 0555)
    \* ---- delivery order (SpecOrder) ----
    batch,      \* watcher -> ticks of the watcher that found new files
    dlog,       \* watcher -> the files its callback was called for, in order,
                \* each with the tick that first observed it
    \* ---- editor (SpecEditor) ----
    vim_mode,   \* VimTextArea.vim_mode
    command_buffer, \* VimTextArea.command_buffer
    text_area,  \* the text of the text area, a sequence of characters
    cursor,     \* characters of the text before the cursor
    is_modified,  \* MarkdownEditor.is_modified
    current_file, \* MarkdownEditor.current_file
    typed,      \* the printable keys pressed since the editor was started
    autosave_timer, \* MarkdownEditor._autosave_timer and the content it carries
    \* ---- application start (SpecApp) ----
    app,        \* how far the application has started
    disk,       \* the paths that exist in the project directory
    project,    \* the paths that existed when the application was started
    submitted,  \* the tasks submitted from the agent panel
    persisted,  \* the task files written for them
    app_exc,    \* the exception of the last submission, or "none"
    \* ---- interleaved task operations (SpecCancelRace, SpecCleanupRace) ----
    stored,     \* the document in task_<id>.json of one task, or NoTask
    co,         \* coroutine -> [op, pc, task, status, ret]
    cancel_ok,  \* a cancel_task on the task has returned True
    late,       \* an update or an external write began after it returned
    gone,       \* the stored status when cleanup removed the file, or None
    \* ---- watcher histories (SpecIdle) ----
    idle_born,  \* file -> it appeared while no watcher was set
    covered,    \* file -> it was born so and stood in the baseline of the watcher
    passed,     \* file -> the callback was called for it while covered
    at_tick,    \* file -> what the last tick or the baseline found of the name
    ncalls,     \* file -> callback calls since the name was last absent at a tick
    owed,       \* the names the last tick found back after an absence
    fout,       \* how the running message callback ends: "returned" or "raised"
    flog,       \* the callbacks called for the message in delivery, in order
    fregistered, \* the callbacks registered when the message was observed
    fanned,     \* the fan-out of that message has run to its end
    fraised,    \* the first callback of it that raised, 0 when none did
    \* ---- files and backups of the editor (SpecAutosave) ----
    on_disk,    \* path -> the file the editor loads and saves, or NoFile
    backup_files, \* path -> the backup file of AutoSaveManager for it, or NoFile
    clean,      \* path -> save_file succeeded for it and the text is as saved
    held        \* path -> the texts the editor held while it was the current file

fvars == <<dir, inode, ninode, wpc, wdoc, wfd, woff, wold, rpc, rfd, rres, rcands>>
tvars == <<tasks, used, now, phase, ret, nops, ran>>
wvars == <<inboxdir, inbox, ncb, watcher_task, nwatch, watch, life, pcalls, calls,
           raised, nenv>>
cvars == <<value, encoded, decoded, text, got>>
nvars == <<ntcb, tcalls, due>>
xvars == <<readonly>>
lvars == <<batch, dlog>>
evars == <<vim_mode, command_buffer, text_area, cursor, is_modified, current_file, typed,
           autosave_timer>>
avars == <<app, disk, project, submitted, persisted, app_exc>>
rvars == <<stored, co, cancel_ok, late, gone>>
h1vars == <<idle_born, covered, passed>>
h2vars == <<at_tick, ncalls, owed>>
h3vars == <<fout, flog, fregistered, fanned, fraised>>
hvars == <<h1vars, h2vars, h3vars>>
bvars == <<on_disk, backup_files, clean, held>>
pvars == <<rvars, hvars, bvars>>
ovars == <<cvars, nvars, xvars, lvars, evars, avars, pvars>>
svars == <<workspace_dir, tasks_dir, inbox_dir, outbox_dir, orchestrator, flux_agents,
           registered_agents, msgs, sret, nhand>>

----------------------------------------------------------------------------
(* Bounds of the model.                                                    *)

MaxDoc == 2
DocLen == 2
MaxInodes == 3

Docs == 1..MaxDoc
Inodes == 1..MaxInodes
Writers == {"w1", "w2"}

FINAL == "doc.json"

\* read_json's None, and the value of a path whose content does not parse.
Absent == 0
Torn == -1

----------------------------------------------------------------------------
(* File layer: FileComm.write_json and FileComm.read_json.                 *)

\* json.dumps(data): the text of document d, DocLen chunks long.
Dumps(d) == [i \in 1..DocLen |-> d]

\* json.loads(content): the document, or Absent for JSONDecodeError (a
\* proper prefix of a document, an empty file or mixed content never parse)
\* which read_json turns into None.
Loads(content) ==
    IF \E d \in Docs : content = Dumps(d)
    THEN CHOOSE d \in Docs : content = Dumps(d)
    ELSE Absent

\* temp_path = path.with_suffix(".tmp")
TempPathSame(path) == path
TempPath(path) == IF path = "doc.json" THEN "doc.tmp" ELSE path

Paths == {FINAL, "doc.tmp"}

\* What a complete open-read-parse of the path would see right now.
FileValue(d, ino, path) ==
    IF d[path] = 0 THEN Absent
    ELSE IF Loads(ino[d[path]]) = Absent THEN Torn
    ELSE Loads(ino[d[path]])

\* History kept for the running read: the values the final path took.
Observe(d, ino, running) ==
    IF running THEN rcands \cup {FileValue(d, ino, FINAL)} ELSE rcands

Reading == rpc \in {"open", "read"}

\* write_json, line 72: aiofiles.open(temp_path, "w") creates or truncates.
write_json_open(w, d) ==
    LET tp == TempPath(FINAL) IN
    /\ wpc[w] \in {"idle", "crashed", "error"}
    /\ dir[tp] # 0 \/ ninode < MaxInodes
    /\ LET fresh == dir[tp] = 0
           n == IF fresh THEN ninode + 1 ELSE dir[tp]
           dir2 == [dir EXCEPT ![tp] = n]
           ino2 == [inode EXCEPT ![n] = <<>>]
       IN /\ dir' = dir2
          /\ inode' = ino2
          /\ ninode' = IF fresh THEN ninode + 1 ELSE ninode
          /\ wfd' = [wfd EXCEPT ![w] = n]
          /\ rcands' = Observe(dir2, ino2, Reading)
    /\ wpc' = [wpc EXCEPT ![w] = "write"]
    /\ wdoc' = [wdoc EXCEPT ![w] = d]
    /\ woff' = [woff EXCEPT ![w] = 0]
    /\ wold' = [wold EXCEPT ![w] = FileValue(dir, inode, FINAL)]
    /\ UNCHANGED <<rpc, rfd, rres>>

\* The content after writing chunk c at offset off (0-based); 0 fills a gap.
WriteAt(content, off, c) ==
    [i \in 1..(IF Len(content) > off + 1 THEN Len(content) ELSE off + 1) |->
        IF i = off + 1 THEN c
        ELSE IF i <= Len(content) THEN content[i] ELSE 0]

\* write_json, line 73: f.write(content) reaches the file chunk by chunk.
write_json_write(w) ==
    /\ wpc[w] = "write"
    /\ LET ino2 == [inode EXCEPT ![wfd[w]] = WriteAt(@, woff[w], wdoc[w])]
       IN /\ inode' = ino2
          /\ rcands' = Observe(dir, ino2, Reading)
    /\ woff' = [woff EXCEPT ![w] = @ + 1]
    /\ wpc' = [wpc EXCEPT ![w] = IF woff[w] + 1 = DocLen THEN "rename" ELSE "write"]
    /\ UNCHANGED <<dir, ninode, wdoc, wfd, wold, rpc, rfd, rres>>

\* write_json, line 76: temp_path.rename(path) replaces the final entry in
\* one step; FileNotFoundError when the temp entry is gone.
write_json_rename(w) ==
    LET tp == TempPath(FINAL) IN
    /\ wpc[w] = "rename"
    /\ IF dir[tp] = 0
       THEN /\ wpc' = [wpc EXCEPT ![w] = "error"]
            /\ UNCHANGED <<dir, rcands>>
       ELSE LET dir2 == IF tp = FINAL THEN dir
                        ELSE [dir EXCEPT ![FINAL] = dir[tp], ![tp] = 0]
            IN /\ dir' = dir2
               /\ rcands' = Observe(dir2, inode, Reading)
               /\ wpc' = [wpc EXCEPT ![w] = "idle"]
    /\ UNCHANGED <<inode, ninode, wdoc, wfd, woff, wold, rpc, rfd, rres>>

\* The writing process dies after opening the temp file and before the
\* rename; nothing it holds is written any further.
write_json_crash(w) ==
    /\ wpc[w] \in {"write", "rename"}
    /\ wpc' = [wpc EXCEPT ![w] = "crashed"]
    /\ UNCHANGED <<dir, inode, ninode, wdoc, wfd, woff, wold, rpc, rfd, rres, rcands>>

\* read_json, lines 95-96: path.exists().
read_json_exists ==
    /\ rpc = "idle"
    /\ rcands' = {FileValue(dir, inode, FINAL)}
    /\ IF dir[FINAL] = 0
       THEN rpc' = "done" /\ rres' = Absent
       ELSE rpc' = "open" /\ rres' = rres
    /\ UNCHANGED <<dir, inode, ninode, wpc, wdoc, wfd, woff, wold, rfd>>

\* read_json, line 99: aiofiles.open(path, "r"); OSError gives None.
read_json_open ==
    /\ rpc = "open"
    /\ IF dir[FINAL] = 0
       THEN rpc' = "done" /\ rres' = Absent /\ rfd' = rfd
       ELSE rpc' = "read" /\ rres' = rres /\ rfd' = dir[FINAL]
    /\ UNCHANGED <<dir, inode, ninode, wpc, wdoc, wfd, woff, wold, rcands>>

\* read_json, lines 100-103: f.read() and json.loads.
read_json_read ==
    /\ rpc = "read"
    /\ rres' = Loads(inode[rfd])
    /\ rpc' = "done"
    /\ UNCHANGED <<dir, inode, ninode, wpc, wdoc, wfd, woff, wold, rfd, rcands>>

\* The caller has its result; the next read may start.
read_json_return ==
    /\ rpc = "done"
    /\ rpc' = "idle"
    /\ rfd' = 0
    /\ rres' = Absent
    /\ rcands' = {}
    /\ UNCHANGED <<dir, inode, ninode, wpc, wdoc, wfd, woff, wold>>

\* The final path is absent at first, or holds a complete document.
InitFile ==
    /\ \/ /\ dir = [p \in Paths |-> 0]
          /\ inode = [n \in Inodes |-> <<>>]
          /\ ninode = 0
       \/ \E d \in Docs :
          /\ dir = [p \in Paths |-> IF p = FINAL THEN 1 ELSE 0]
          /\ inode = [n \in Inodes |-> IF n = 1 THEN Dumps(d) ELSE <<>>]
          /\ ninode = 1
    /\ wpc = [w \in Writers |-> "idle"]
    /\ wdoc = [w \in Writers |-> 1]
    /\ wfd = [w \in Writers |-> 0]
    /\ woff = [w \in Writers |-> 0]
    /\ wold = [w \in Writers |-> Absent]
    /\ rpc = "idle"
    /\ rfd = 0
    /\ rres = Absent
    /\ rcands = {}

----------------------------------------------------------------------------
(* Task registry: AgentTask and AgentRegistry.create_task / update_task /  *)
(* cancel_task / get_task.                                                 *)

MaxTasks == 2
MaxTime == 2
MaxOps == 4

TaskIds == 1..MaxTasks
Times == 1..MaxTime

PENDING == "pending"
RUNNING == "running"
COMPLETED == "completed"
FAILED == "failed"
CANCELLED == "cancelled"
TaskStatus == {PENDING, RUNNING, COMPLETED, FAILED, CANCELLED}
Terminal == {COMPLETED, FAILED, CANCELLED}

\* Python's None for a result, an error, a status argument; 0 for a timestamp.
None == "none"
Results == {None, "R1"}
Errors == {None, "E1"}

\* No file task_<id>.json: read_json gives None and get_task returns None.
NoTask ==
    [status |-> None, result |-> None, error |-> None,
     created_at |-> 0, started_at |-> 0, completed_at |-> 0]

\* AgentTask(description=...): the dataclass defaults.
NewTaskStarted(t) ==
    [status |-> PENDING, result |-> None, error |-> None,
     created_at |-> t, started_at |-> t, completed_at |-> 0]
NewTask(t) ==
    [status |-> PENDING, result |-> None, error |-> None,
     created_at |-> t, started_at |-> 0, completed_at |-> 0]

\* AgentTask.start
startNoStamp(task, t) == [task EXCEPT !.status = RUNNING]
start(task, t) == [task EXCEPT !.status = RUNNING, !.started_at = t]

\* AgentTask.complete
complete(task, result, t) ==
    [task EXCEPT !.status = COMPLETED, !.result = result, !.completed_at = t]

\* AgentTask.fail
fail(task, error, t) ==
    [task EXCEPT !.status = FAILED, !.error = error, !.completed_at = t]

\* AgentTask.cancel
cancel(task, t) == [task EXCEPT !.status = CANCELLED, !.completed_at = t]

\* AgentRegistry.get_task: the stored document decoded, None when absent.
get_task_or_new(id) == IF tasks[id] = NoTask THEN NewTask(now) ELSE tasks[id]
get_task(id) == tasks[id]

\* update_task, lines 254-266: the status-specific side effects, then the
\* result side channel.
ApplyStatusOnly(task, status, result, error, t) ==
    IF status = RUNNING THEN start(task, t)
    ELSE IF status = COMPLETED THEN complete(task, result, t)
    ELSE IF status = FAILED
         THEN fail(task, IF error = None THEN "Unknown error" ELSE error, t)
    ELSE IF status = CANCELLED THEN cancel(task, t)
    ELSE IF status # None THEN [task EXCEPT !.status = status]
    ELSE task
ApplyUpdate(task, status, result, error, t) ==
    LET t1 == IF status = RUNNING THEN start(task, t)
              ELSE IF status = COMPLETED THEN complete(task, result, t)
              ELSE IF status = FAILED
                   THEN fail(task, IF error = None THEN "Unknown error" ELSE error, t)
              ELSE IF status = CANCELLED THEN cancel(task, t)
              ELSE IF status # None THEN [task EXCEPT !.status = status]
              ELSE task
    IN IF result # None /\ status # COMPLETED
       THEN [t1 EXCEPT !.result = result]
       ELSE t1

\* cancel_task, line 283: the terminal-state guard.
NotPending(task) == task.status # PENDING
DoneOrFailed(task) == task.status \in {COMPLETED, FAILED}
AlreadyTerminal(task) == task.status \in Terminal

\* The observer of the sequence create, update(RUNNING), update(COMPLETED, R).
PhaseAfterUpdate(ph, status, result, error) ==
    IF ph.step = 1 /\ status = RUNNING /\ result = None
    THEN [step |-> 2, r |-> None]
    ELSE IF ph.step = 2 /\ status = COMPLETED
    THEN [step |-> 3, r |-> result]
    ELSE [step |-> 0, r |-> None]

\* AgentRegistry.create_task: a fresh id, PENDING, created_at = now, persisted.
create_task ==
    /\ nops < MaxOps
    /\ used < MaxTasks
    /\ LET id == used + 1 IN
       /\ tasks' = [tasks EXCEPT ![id] = NewTask(now)]
       /\ used' = id
       /\ phase' = [phase EXCEPT ![id] = [step |-> 1, r |-> None]]
       /\ ran' = [ran EXCEPT ![id] = FALSE]
       /\ ret' = "task"
    /\ nops' = nops + 1
    /\ UNCHANGED now

\* AgentRegistry.update_task
update_task(id, status, result, error) ==
    LET task == get_task(id) IN
    /\ nops < MaxOps
    /\ nops' = nops + 1
    /\ IF task = NoTask
       THEN /\ ret' = None
            /\ UNCHANGED <<tasks, phase, ran>>
       ELSE /\ tasks' = [tasks EXCEPT ![id] = ApplyUpdate(task, status, result, error, now)]
            /\ phase' = [phase EXCEPT ![id] = PhaseAfterUpdate(@, status, result, error)]
            /\ ran' = [ran EXCEPT ![id] = @ \/ status = RUNNING]
            /\ ret' = "task"
    /\ UNCHANGED <<used, now>>

\* The owner calls get_task, lines 223-230: the task, or None when
\* read_json found no file.
call_get_task_by_id(id) ==
    LET task == get_task(id) IN
    /\ nops < MaxOps
    /\ nops' = nops + 1
    /\ ret' = IF task = NoTask THEN None ELSE "task"
    /\ UNCHANGED <<tasks, used, now, phase, ran>>

\* AgentRegistry.cancel_task
cancel_task(id) ==
    LET task == get_task(id) IN
    /\ nops < MaxOps
    /\ nops' = nops + 1
    /\ IF task = NoTask \/ AlreadyTerminal(task)
       THEN /\ ret' = "false"
            /\ UNCHANGED <<tasks, phase, ran>>
       ELSE /\ tasks' = [tasks EXCEPT ![id] = cancel(task, now)]
            /\ phase' = [phase EXCEPT ![id] = [step |-> 0, r |-> None]]
            /\ ret' = "true"
            /\ UNCHANGED ran
    /\ UNCHANGED <<used, now>>

\* Time passes between two operations (datetime.now() read by _now_iso).
Tick ==
    /\ now < MaxTime
    /\ now' = now + 1
    /\ UNCHANGED <<tasks, used, phase, ret, nops, ran>>

InitTasks ==
    /\ tasks = [id \in TaskIds |-> NoTask]
    /\ used = 0
    /\ now = 1
    /\ phase = [id \in TaskIds |-> [step |-> 0, r |-> None]]
    /\ ret = None
    /\ nops = 0
    /\ ran = [id \in TaskIds |-> FALSE]

----------------------------------------------------------------------------
(* Inbox watcher: FileComm.watch_directory under                           *)
(* AgentRegistry.start_watching / stop_watching / on_message.              *)

MaxFiles == 2
MaxCallbacks == 2
MaxWatchers == 2
MaxWrites == 2

\* Names of the *.json files of the inbox; their order is the sorted order.
Files == 1..MaxFiles
Callbacks == 1..MaxCallbacks
Watchers == 1..MaxWatchers

\* valid: a well-formed message document; malformed: JSON that
\* AgentMessage.from_dict rejects; garbage: not JSON.
Kinds == {"valid", "malformed", "garbage"}

\* A watcher coroutine: its position, its locals, and asyncio's _must_cancel
\* (a cancellation requested while the task itself is running).
NoWatch == [pc |-> "none", seen |-> {}, current |-> {}, queue |-> <<>>, cbidx |-> 0,
            must_cancel |-> FALSE]

\* directory.glob("*.json")
Glob == {f \in Files : inbox[f] # "absent"}

\* sorted(new_files)
Unsorted(S) ==
    IF S = {} THEN <<>>
    ELSE LET m == CHOOSE x \in S : \A y \in S : x >= y
         IN <<m>> \o [i \in 1..(Cardinality(S) - 1) |->
                        CHOOSE x \in S \ {m} :
                            Cardinality({y \in S \ {m} : y < x}) = i - 1]
RECURSIVE Sorted(_)
Sorted(S) ==
    IF S = {} THEN <<>>
    ELSE LET m == CHOOSE x \in S : \A y \in S : x <= y
         IN <<m>> \o Sorted(S \ {m})

\* watch_directory, lines 164-168: the baseline.
NoBaseline(exists, listing) == {}
Baseline(exists, listing) == IF exists THEN listing ELSE {}

\* watch_directory, line 177: new_files = current_files - seen_files
AllListed(current, seen) == current
NewFiles(current, seen) == current \ seen

\* watch_directory, line 188: seen_files = current_files
RecordLive(current) == Glob
Record(current) == current

\* watch_directory, lines 185-186: an exception of the callback is dropped
\* and the loop goes on with the next file.
Propagate(pc) == "crashed"
OnCallbackError(pc) == pc

\* start_watching, lines 425-426: the guard on the handle.
NeverWatching(handle) == FALSE
AlreadyWatching(handle) == handle # 0

\* stop_watching, line 452: task.cancel() on a task suspended at an await (or
\* not yet started): CancelledError is thrown in there, no except clause of
\* the loop catches it, and the coroutine runs no further statement.
Cancelled(w) == [NoWatch EXCEPT !.pc = "cancelled"]

\* stop_watching, line 452, called from inside a message callback: the task
\* to cancel is the running one, which goes on until it next suspends.
CancelRequested(w) == [w EXCEPT !.must_cancel = TRUE]

\* A watcher that still runs its loop.
Live(w) == watch[w].pc \in {"created", "sleep", "deliver", "fanout"}

\* A watcher that runs on after its cancellation was requested.
Stopping(w) == Live(w) /\ watch[w].must_cancel

\* The event loop runs one task at a time: watcher w takes a step only when
\* no other watcher is in the middle of a callback it was stopped from.
Scheduled(w) == \A v \in Watchers \ {w} : ~Stopping(v)

\* The set the next listing is compared with: current_files while the tick
\* is being delivered (line 188 records it), seen_files otherwise.
Recorded(w) ==
    IF watch[w].pc \in {"deliver", "fanout"} THEN watch[w].current ELSE watch[w].seen

\* The active watcher once it has taken its baseline, 0 when there is none.
Polling ==
    IF \E w \in Watchers : watch[w].pc \in {"sleep", "deliver", "fanout"} /\ ~Stopping(w)
    THEN CHOOSE w \in Watchers :
            watch[w].pc \in {"sleep", "deliver", "fanout"} /\ ~Stopping(w)
    ELSE 0

ZeroCalls == [c \in Callbacks |-> 0]
Bump(n) == IF n < 2 THEN n + 1 ELSE 2

\* History: counters are kept only for the files some history speaks of.
Counted(lf, old, new) == [f \in Files |-> IF lf[f] = "none" THEN old[f] ELSE new[f]]

\* History: all claims on the files end (the watcher is no longer active).
Forget ==
    /\ life' = [f \in Files |-> "none"]
    /\ pcalls' = [f \in Files |-> 0]
    /\ calls' = [f \in Files |-> ZeroCalls]

\* History: file f leaves the directory.
LifeAfterDelete(l) == IF l \in {"fresh", "freshx"} THEN "ghost" ELSE "none"

\* on_message: _message_callbacks.append(callback)
on_message ==
    /\ ncb < MaxCallbacks
    /\ ncb' = ncb + 1
    /\ UNCHANGED <<inboxdir, inbox, watcher_task, nwatch, watch, life, pcalls, calls,
                   raised, nenv>>

\* start_watching: nothing when a watcher is set, else create the task.
start_watching ==
    /\ IF AlreadyWatching(watcher_task)
       THEN UNCHANGED <<watcher_task, nwatch, watch, life, pcalls, calls>>
       ELSE /\ nwatch < MaxWatchers
            /\ nwatch' = nwatch + 1
            /\ watcher_task' = nwatch + 1
            /\ watch' = [watch EXCEPT ![nwatch + 1] = [NoWatch EXCEPT !.pc = "created"]]
            /\ Forget
    /\ UNCHANGED <<inboxdir, inbox, ncb, raised, nenv>>

\* stop_watching: cancel the task and clear the handle.  The caller is the
\* owner while the watcher is suspended, or a message callback the watcher
\* is running (only then is the watcher inside the fan-out).
stop_watching ==
    /\ IF watcher_task # 0
       THEN /\ \E inside \in BOOLEAN :
                 /\ inside => watch[watcher_task].pc = "fanout"
                 /\ (\E v \in Watchers : Stopping(v)) => ~inside
                 /\ watch' = [watch EXCEPT ![watcher_task] =
                                 IF ~Live(watcher_task) THEN @
                                 ELSE IF inside THEN CancelRequested(@)
                                 ELSE Cancelled(@)]
            /\ watcher_task' = 0
            /\ Forget
       ELSE UNCHANGED <<watcher_task, watch, life, pcalls, calls>>
    /\ UNCHANGED <<inboxdir, inbox, ncb, nwatch, raised, nenv>>

\* watch_directory, lines 163-168: the first run of the coroutine.
watch_baseline(w) ==
    /\ watch[w].pc = "created"
    /\ Scheduled(w)
    /\ watch' = [watch EXCEPT ![w] =
                    [@ EXCEPT !.pc = "sleep", !.seen = Baseline(inboxdir, Glob)]]
    /\ life' = [f \in Files |-> IF inbox[f] # "absent" THEN "base" ELSE "none"]
    /\ pcalls' = [f \in Files |-> 0]
    /\ calls' = [f \in Files |-> ZeroCalls]
    /\ UNCHANGED <<inboxdir, inbox, ncb, watcher_task, nwatch, raised, nenv>>

\* History: the listing of a tick has seen the file.
LifeAtListing(l) ==
    IF l = "fresh" THEN "obs"
    ELSE IF l = "stale" THEN "obsS"
    ELSE IF l = "freshx" THEN "none"
    ELSE l

\* History: the callbacks of the file have run.
LifeAtDelivery(l) == IF l = "obs" THEN "dlv" ELSE l

\* History: line 188 has recorded the listing.
LifeAtRecord(l) ==
    IF l = "dlv" THEN "done" ELSE IF l = "obsS" THEN "doneS" ELSE l

\* watch_directory, lines 170-178 (and 188 when nothing is new): the sleep
\* ends; a missing directory skips the tick, else the directory is listed.
watch_tick(w) ==
    /\ watch[w].pc = "sleep"
    /\ Scheduled(w)
    /\ LET current == Glob
           new == NewFiles(current, watch[w].seen)
           l1 == [f \in Files |-> IF f \in current THEN LifeAtListing(life[f]) ELSE life[f]]
       IN IF ~inboxdir
          THEN UNCHANGED <<watch, life>>
          ELSE IF new = {}
          THEN /\ watch' = [watch EXCEPT ![w] = [@ EXCEPT !.seen = Record(current)]]
               /\ life' = [f \in Files |-> LifeAtRecord(l1[f])]
          ELSE /\ watch' = [watch EXCEPT ![w] =
                              [@ EXCEPT !.pc = "deliver", !.current = current,
                                        !.queue = Sorted(new)]]
               /\ life' = l1
    /\ UNCHANGED <<inboxdir, inbox, ncb, watcher_task, nwatch, pcalls, calls, raised, nenv>>

\* The loop after the callback of the head of the queue has ended: the next
\* file, or line 188 and the next sleep.
NextFile(ws) ==
    IF Len(ws.queue) > 1
    THEN [ws EXCEPT !.pc = "deliver", !.queue = Tail(@), !.cbidx = 0]
    ELSE [ws EXCEPT !.pc = "sleep", !.queue = <<>>, !.cbidx = 0,
                    !.seen = Record(ws.current), !.current = {}]

\* watch_directory, line 179: the file the loop over sorted(new_files) is at.
NextNewLive(ws) ==
    IF Glob \ ws.seen # {} THEN Head(Sorted(Glob \ ws.seen)) ELSE Head(ws.queue)
NextNew(ws) == Head(ws.queue)

\* History: the callback of file f has ended.
LifeAfterFile(ws, l, f) ==
    LET l1 == [l EXCEPT ![f] = LifeAtDelivery(@)]
    IN IF Len(ws.queue) > 1 THEN l1 ELSE [g \in Files |-> LifeAtRecord(l1[g])]

\* read_json(path) as watch_inbox sees it: None for a missing file or
\* directory and for content that is not JSON.
ReadKind(f) == IF inboxdir THEN inbox[f] ELSE "absent"

\* watch_directory, lines 179-186, calling watch_inbox, lines 429-437: the
\* callback of the next new file reads it, decodes it and calls the first
\* message callback.
watch_callback(w) ==
    /\ watch[w].pc = "deliver"
    /\ Scheduled(w)
    /\ LET f == NextNew(watch[w])
           kind == ReadKind(f)
       IN /\ pcalls' = Counted(life, pcalls, [pcalls EXCEPT ![f] = Bump(@)])
          /\ IF kind = "valid" /\ ncb > 0
             THEN /\ watch' = [watch EXCEPT ![w] = [@ EXCEPT !.pc = "fanout", !.cbidx = 1]]
                  /\ calls' = Counted(life, calls, [calls EXCEPT ![f][1] = Bump(@)])
                  /\ UNCHANGED <<life, raised>>
             ELSE IF kind = "malformed"
             THEN /\ watch' = [watch EXCEPT ![w] =
                                 [NextFile(@) EXCEPT !.pc = OnCallbackError(NextFile(watch[w]).pc)]]
                  /\ life' = LifeAfterFile(watch[w], life, f)
                  /\ raised' = TRUE
                  /\ UNCHANGED calls
             ELSE /\ watch' = [watch EXCEPT ![w] = NextFile(@)]
                  /\ life' = LifeAfterFile(watch[w], life, f)
                  /\ UNCHANGED <<calls, raised>>
    /\ UNCHANGED <<inboxdir, inbox, ncb, watcher_task, nwatch, nenv>>

\* watch_inbox, lines 432-439: the loop over _message_callbacks goes on to
\* the next callback however the running one ended (except Exception: pass).
UntilRaised(i, n, outcome) == i < n /\ outcome = "returned"
Remaining(i, n, outcome) == i < n

\* watch_inbox, lines 432-439: the running message callback returns or
\* raises (dropped either way); the next registered callback is called, or
\* the file is finished.  A watcher stopped from inside a callback gets its
\* CancelledError where it next suspends: after the fan-out, in the read of
\* the next file or in the sleep.
watch_fanout(w) ==
    /\ watch[w].pc = "fanout"
    /\ Scheduled(w)
    /\ LET f == Head(watch[w].queue)
           i == watch[w].cbidx
       IN IF Remaining(i, ncb, fout)
          THEN /\ watch' = [watch EXCEPT ![w] = [@ EXCEPT !.cbidx = i + 1]]
               /\ calls' = Counted(life, calls, [calls EXCEPT ![f][i + 1] = Bump(@)])
               /\ UNCHANGED life
          ELSE IF watch[w].must_cancel
          THEN /\ watch' = [watch EXCEPT ![w] = Cancelled(@)]
               /\ UNCHANGED <<life, calls>>
          ELSE /\ watch' = [watch EXCEPT ![w] = NextFile(@)]
               /\ life' = LifeAfterFile(watch[w], life, f)
               /\ UNCHANGED calls
    /\ UNCHANGED <<inboxdir, inbox, ncb, watcher_task, nwatch, pcalls, raised, nenv>>

\* An agent puts a complete file into the inbox (a rename onto the name), or
\* replaces the content of one that is there.
agent_write(f, kind) ==
    /\ nenv < MaxWrites
    /\ inboxdir
    /\ inbox[f] # kind
    /\ nenv' = nenv + 1
    /\ inbox' = [inbox EXCEPT ![f] = kind]
    /\ IF inbox[f] = "absent"
       THEN LET l == IF Polling = 0 THEN "none"
                     ELSE IF f \in Recorded(Polling)
                          THEN (IF kind = "valid" THEN "stale" ELSE "none")
                          ELSE (IF kind = "valid" THEN "fresh" ELSE "freshx")
            IN /\ life' = [life EXCEPT ![f] = l]
               /\ pcalls' = [pcalls EXCEPT ![f] = 0]
               /\ calls' = [calls EXCEPT ![f] = ZeroCalls]
       ELSE /\ life' = [life EXCEPT ![f] =
                          IF @ = "fresh" THEN "freshx"
                          ELSE IF @ \in {"stale", "obs", "obsS", "ghost"} THEN "none" ELSE @]
            /\ UNCHANGED <<pcalls, calls>>
    /\ UNCHANGED <<inboxdir, ncb, watcher_task, nwatch, watch, raised>>

\* A file leaves the inbox (an agent removes it, or acknowledge_message).
agent_delete(f) ==
    /\ inboxdir
    /\ inbox[f] # "absent"
    /\ inbox' = [inbox EXCEPT ![f] = "absent"]
    /\ life' = [life EXCEPT ![f] = LifeAfterDelete(@)]
    /\ UNCHANGED <<inboxdir, ncb, watcher_task, nwatch, watch, pcalls, calls, raised,
                   nenv>>

\* The inbox directory is removed with everything in it.
dir_remove ==
    /\ inboxdir
    /\ inboxdir' = FALSE
    /\ inbox' = [f \in Files |-> "absent"]
    /\ life' = [f \in Files |-> IF inbox[f] = "absent" THEN life[f]
                                ELSE LifeAfterDelete(life[f])]
    /\ UNCHANGED <<ncb, watcher_task, nwatch, watch, pcalls, calls, raised, nenv>>

\* FileComm.init_workspace, line 46: mkdir(parents=True, exist_ok=True).
dir_create ==
    /\ ~inboxdir
    /\ inboxdir' = TRUE
    /\ UNCHANGED <<inbox, ncb, watcher_task, nwatch, watch, life, pcalls, calls, raised, nenv>>

\* The other layers at rest.
IdleFile ==
    /\ dir = [p \in Paths |-> 0]
    /\ inode = [n \in Inodes |-> <<>>]
    /\ ninode = 0
    /\ wpc = [w \in Writers |-> "idle"]
    /\ wdoc = [w \in Writers |-> 1]
    /\ wfd = [w \in Writers |-> 0]
    /\ woff = [w \in Writers |-> 0]
    /\ wold = [w \in Writers |-> Absent]
    /\ rpc = "idle"
    /\ rfd = 0
    /\ rres = Absent
    /\ rcands = {}

\* An initialised workspace with an empty inbox, no callback registered, no
\* watcher started.
InitWatch ==
    /\ inboxdir = TRUE
    /\ inbox = [f \in Files |-> "absent"]
    /\ ncb = 0
    /\ watcher_task = 0
    /\ nwatch = 0
    /\ watch = [w \in Watchers |-> NoWatch]
    /\ life = [f \in Files |-> "none"]
    /\ pcalls = [f \in Files |-> 0]
    /\ calls = [f \in Files |-> ZeroCalls]
    /\ raised = FALSE
    /\ nenv = 0

----------------------------------------------------------------------------
(* Specifications.                                                         *)

----------------------------------------------------------------------------
(* Workspace store: the documents of tasks/, messages/inbox/ and           *)
(* messages/outbox/ as the registry's scans read them.                     *)

MaxStore == 2
MaxHand == 2
MaxAge == 1
MaxEntries == 2

\* Names of the files of a directory: task_<n>.json, msg_<n>.json.
Names == 1..MaxStore

\* completed_at as it stands in a document: null, an ISO time without
\* offset (what _now_iso writes), an ISO time with a UTC offset, a string
\* that is no ISO time, or a JSON number.
NoStamp == [form |-> "null", t |-> 0]
Stamps ==
    {NoStamp, [form |-> "text", t |-> 0], [form |-> "number", t |-> 0],
     [form |-> "aware", t |-> 0]} \cup {[form |-> "naive", t |-> t] : t \in Times}

\* What a task file holds.  kind: nofile (no such file), garbage (text that
\* is not JSON), binary (bytes that do not decode as text), empty ({}),
\* array (a JSON list), object (a JSON object; id 0 stands for no "id" key).
TaskFile(kind) == [kind |-> kind, id |-> 0, status |-> None, completed_at |-> NoStamp]
TaskDocument(id, status, completed_at) ==
    [kind |-> "object", id |-> id, status |-> status, completed_at |-> completed_at]

\* What a message file holds: as a task file, with "type" and "sender".
MessageFile(kind) == [kind |-> kind, id |-> 0, type |-> None, sender |-> None]
MessageDocument(id, type, sender) ==
    [kind |-> "object", id |-> id, type |-> type, sender |-> sender]

REQUEST == "request"
RESPONSE == "response"
MessageType == {REQUEST, RESPONSE}

\* The outcome of a call: the exception it raised ("none" when it returned),
\* the documents it returned, the number or truth value it returned.
Returned(op, list, n) == [op |-> op, exc |-> "none", list |-> list, n |-> n]
Raising(op, exc) == [op |-> op, exc |-> exc, list |-> <<>>, n |-> 0]

\* read_json_sync / read_json, lines 89-116: None for a missing file and for
\* JSONDecodeError or OSError; f.read() of bytes that are no text raises
\* UnicodeDecodeError, which neither except clause names.
read_json_sync(doc) ==
    IF doc.kind \in {"nofile", "garbage"} THEN Returned("read_json", <<>>, 0)
    ELSE IF doc.kind = "binary" THEN Raising("read_json", "UnicodeDecodeError")
    ELSE Returned("read_json", <<doc>>, 0)

\* "if data:" - None and {} are false.
Truthy(r) == r.list # <<>> /\ r.list[1].kind # "empty"

\* AgentTask.from_dict: data["id"] and TaskStatus(...).
AgentTask_from_dict(data) ==
    IF data.kind = "array" THEN Raising("from_dict", "TypeError")
    ELSE IF data.id = 0 THEN Raising("from_dict", "KeyError")
    ELSE IF data.status \notin TaskStatus THEN Raising("from_dict", "ValueError")
    ELSE Returned("from_dict", <<data>>, 0)

\* AgentMessage.from_dict: data["id"] and MessageType(data["type"]).
AgentMessage_from_dict(data) ==
    IF data.kind = "array" THEN Raising("from_dict", "TypeError")
    ELSE IF data.id = 0 \/ data.type = None THEN Raising("from_dict", "KeyError")
    ELSE IF data.type \notin MessageType THEN Raising("from_dict", "ValueError")
    ELSE Returned("from_dict", <<data>>, 0)

\* list_json_files: the sorted *.json names of a directory, none when the
\* directory does not exist.
list_json_files(exists, directory) ==
    IF exists THEN Sorted({n \in Names : directory[n].kind # "nofile"}) ELSE <<>>

\* get_tasks, lines 194-204: read every listed file in order; a falsy
\* document is skipped, an exception of read_json or from_dict ends the scan.
RECURSIVE ScanTasks(_, _, _)
ScanTasks(files, directory, status_filter) ==
    IF files = <<>> THEN Returned("get_tasks", <<>>, 0)
    ELSE LET data == read_json_sync(directory[Head(files)])
             task == AgentTask_from_dict(data.list[1])
             rest == ScanTasks(Tail(files), directory, status_filter)
         IN IF data.exc # "none" THEN Raising("get_tasks", data.exc)
            ELSE IF ~Truthy(data) THEN rest
            ELSE IF task.exc # "none" THEN Raising("get_tasks", task.exc)
            ELSE IF rest.exc # "none" THEN rest
            ELSE IF status_filter = None \/ task.list[1].status = status_filter
            THEN Returned("get_tasks", <<task.list[1]>> \o rest.list, 0)
            ELSE rest

get_tasks(status_filter) ==
    ScanTasks(list_json_files(workspace_dir, tasks_dir), tasks_dir, status_filter)

\* get_task, lines 225-230, on the file task_<task_id>.json.
get_task_sync(task_id) ==
    LET data == read_json_sync(tasks_dir[task_id])
        task == AgentTask_from_dict(data.list[1])
    IN IF data.exc # "none" THEN Raising("get_task", data.exc)
       ELSE IF ~Truthy(data) THEN Returned("get_task", <<>>, 0)
       ELSE IF task.exc # "none" THEN Raising("get_task", task.exc)
       ELSE Returned("get_task", task.list, 0)

\* The documents a hand or an agent may put under the name task_<n>.json.
HandTasks(n) ==
    {TaskFile(k) : k \in {"garbage", "binary", "empty", "array"}}
    \cup {TaskDocument(0, PENDING, NoStamp), TaskDocument(n, "bogus", NoStamp)}
    \cup {TaskDocument(n, s, NoStamp) : s \in TaskStatus}
    \cup {TaskDocument(n, COMPLETED, c) : c \in Stamps}
    \cup {TaskDocument(n, RUNNING, [form |-> "naive", t |-> 0])}
    \cup {TaskDocument(m, COMPLETED, [form |-> "naive", t |-> 0]) : m \in Names \ {n}}

\* A task file is written from outside the registry (complete, by rename).
hand_write_task(n, doc) ==
    /\ workspace_dir
    /\ nhand < MaxHand
    /\ doc # tasks_dir[n]
    /\ nhand' = nhand + 1
    /\ tasks_dir' = [tasks_dir EXCEPT ![n] = doc]
    /\ UNCHANGED <<workspace_dir, inbox_dir, outbox_dir, orchestrator, flux_agents,
                   registered_agents, msgs, sret>>

\* The owner calls read_json on a task file.
call_read_json(n) ==
    /\ sret' = read_json_sync(tasks_dir[n])
    /\ UNCHANGED <<workspace_dir, tasks_dir, inbox_dir, outbox_dir, orchestrator,
                   flux_agents, registered_agents, msgs, nhand>>

\* The owner calls get_tasks(status_filter).
call_get_tasks(status_filter) ==
    /\ sret' = get_tasks(status_filter)
    /\ UNCHANGED <<workspace_dir, tasks_dir, inbox_dir, outbox_dir, orchestrator,
                   flux_agents, registered_agents, msgs, nhand>>

\* The owner calls get_task(task_id).
call_get_task(task_id) ==
    /\ sret' = get_task_sync(task_id)
    /\ UNCHANGED <<workspace_dir, tasks_dir, inbox_dir, outbox_dir, orchestrator,
                   flux_agents, registered_agents, msgs, nhand>>

\* delete_task -> delete_file, lines 292-299 and 134-141: the file named
\* after the id is removed when there is one.
delete_file(directory, n) == [directory EXCEPT ![n] = TaskFile("nofile")]

\* delete_file, lines 137-141: os.remove raises FileNotFoundError for a
\* missing file and PermissionError in a directory that denies writes; both
\* are OSError and answered with False (n = 0), else True (n = 1).
delete_file_result(exists) == IF exists /\ ~readonly THEN 1 ELSE 0

\* delete_task, lines 292-299.
delete_task(task_id) ==
    /\ tasks_dir' = IF readonly THEN tasks_dir ELSE delete_file(tasks_dir, task_id)
    /\ sret' = Returned("delete_task", <<>>,
                        delete_file_result(tasks_dir[task_id].kind # "nofile"))
    /\ UNCHANGED <<workspace_dir, inbox_dir, outbox_dir, orchestrator, flux_agents,
                   registered_agents, msgs, nhand>>

\* cleanup_completed_tasks, lines 471-479: the loop over the scanned tasks.
\* fromisoformat raises ValueError (caught) for a string that is no ISO time
\* and TypeError for a value that is no string; comparing a time with an
\* offset with the cutoff, which has none, raises TypeError as well.
RECURSIVE CleanupLoop(_, _, _, _)
CleanupLoop(list, directory, cutoff, deleted) ==
    IF list = <<>> THEN [exc |-> "none", dir |-> directory, n |-> deleted]
    ELSE LET task == Head(list)
             at == task.completed_at
         IN IF task.status \notin Terminal \/ at.form \in {"null", "text"}
            THEN CleanupLoop(Tail(list), directory, cutoff, deleted)
            ELSE IF at.form \in {"number", "aware"}
            THEN [exc |-> "TypeError", dir |-> directory, n |-> deleted]
            ELSE IF at.t < cutoff
            THEN IF directory[task.id].kind # "nofile" /\ ~readonly
                 THEN CleanupLoop(Tail(list), delete_file(directory, task.id), cutoff,
                                  deleted + 1)
                 ELSE CleanupLoop(Tail(list), directory, cutoff, deleted)
            ELSE CleanupLoop(Tail(list), directory, cutoff, deleted)

\* cleanup_completed_tasks(max_age_hours) called when datetime.now() is t.
cleanup_completed_tasks(max_age_hours, t) ==
    LET scanned == get_tasks(None)
        done == CleanupLoop(scanned.list, tasks_dir, t - max_age_hours, 0)
    IN /\ IF scanned.exc # "none"
          THEN /\ sret' = Raising("cleanup_completed_tasks", scanned.exc)
               /\ UNCHANGED tasks_dir
          ELSE /\ sret' = [op |-> "cleanup_completed_tasks", exc |-> done.exc,
                           list |-> <<>>, n |-> done.n]
               /\ tasks_dir' = done.dir
       /\ UNCHANGED <<workspace_dir, inbox_dir, outbox_dir, orchestrator, flux_agents,
                      registered_agents, msgs, nhand>>

\* flux_agents.json.  An entry of "agents": the id of a well-formed agent,
\* "nokey" for an object without id or name, "scalar" for a string, a
\* number or null in the place of an object.
AgentIds == {"a1", "a2"}
Entries == AgentIds \cup {"nokey", "scalar"}

RECURSIVE SeqsUpTo(_, _)
SeqsUpTo(S, n) ==
    IF n = 0 THEN {<<>>}
    ELSE SeqsUpTo(S, n - 1) \cup {Append(q, e) : q \in SeqsUpTo(S, n - 1), e \in S}

\* What flux_agents.json holds: kind as for a task file, and the "agents"
\* list of a JSON object.
ConfigFile(kind) == [kind |-> kind, agents |-> <<>>]
ConfigDocument(agents) == [kind |-> "object", agents |-> agents]

\* load_agent_config, line 98: {"version": "1.0", "agents": []}
default_config == ConfigDocument(<<>>)

\* The documents a hand may leave at flux_agents.json.
HandConfigs ==
    {ConfigFile(k) : k \in {"garbage", "binary", "empty", "array"}}
    \cup {ConfigDocument(q) : q \in SeqsUpTo(Entries, MaxEntries)}

\* workspace_exists, lines 50-53 and file_comm.py 59-61.
AlwaysExists == TRUE
workspace_exists == workspace_dir

\* load_agent_config, lines 103-108: from_dict of every entry in order;
\* KeyError is caught and the entry dropped, the TypeError of an entry that
\* is no object is not, and leaves the list as far as it was built.
RECURSIVE LoadEntries(_, _)
LoadEntries(entries, loaded) ==
    IF entries = <<>> THEN [exc |-> "none", agents |-> loaded]
    ELSE IF Head(entries) = "scalar" THEN [exc |-> "TypeError", agents |-> loaded]
    ELSE IF Head(entries) = "nokey" THEN LoadEntries(Tail(entries), loaded)
    ELSE LoadEntries(Tail(entries), Append(loaded, Head(entries)))

\* load_agent_config, lines 93-110, as a relation on the configuration file
\* and the registered list; exists is what workspace_exists answers and
\* [exc, list] is what the call raises or returns.
LoadAgentConfig(exists, out) ==
    LET doc == flux_agents
        falsy == doc.kind \in {"nofile", "garbage", "empty"}
        data == IF falsy THEN default_config ELSE doc
        done == LoadEntries(data.agents, <<>>)
    IN IF doc.kind = "binary"
       THEN /\ out = [exc |-> "UnicodeDecodeError", list |-> <<>>]
            /\ UNCHANGED <<flux_agents, registered_agents>>
       ELSE /\ flux_agents' = IF falsy /\ exists THEN default_config
                              ELSE flux_agents
            /\ IF data.kind = "array"
               THEN /\ out = [exc |-> "AttributeError", list |-> <<>>]
                    /\ registered_agents' = <<>>
               ELSE /\ out = [exc |-> done.exc,
                              list |-> IF done.exc = "none" THEN done.agents ELSE <<>>]
                    /\ registered_agents' = done.agents

Outcomes ==
    [exc : {"none", "UnicodeDecodeError", "AttributeError", "TypeError"},
     list : SeqsUpTo(AgentIds, MaxEntries)]

\* The owner calls load_agent_config.
load_agent_config ==
    /\ \E out \in Outcomes :
          /\ LoadAgentConfig(workspace_exists, out)
          /\ sret' = [op |-> "load_agent_config", exc |-> out.exc, list |-> out.list,
                      n |-> 0]
    /\ UNCHANGED <<workspace_dir, tasks_dir, inbox_dir, outbox_dir, orchestrator, msgs,
                   nhand>>

\* flux_agents.json is edited by hand (saved complete).
hand_write_config(doc) ==
    /\ workspace_dir
    /\ nhand < MaxHand
    /\ doc # flux_agents
    /\ nhand' = nhand + 1
    /\ flux_agents' = doc
    /\ UNCHANGED <<workspace_dir, tasks_dir, inbox_dir, outbox_dir, orchestrator,
                   registered_agents, msgs, sret>>

\* flux_agents.json is removed.
hand_remove_config ==
    /\ workspace_dir
    /\ flux_agents.kind # "nofile"
    /\ flux_agents' = ConfigFile("nofile")
    /\ UNCHANGED <<workspace_dir, tasks_dir, inbox_dir, outbox_dir, orchestrator,
                   registered_agents, msgs, sret, nhand>>

\* The whole .flux-studio/ directory is removed.
remove_workspace ==
    /\ workspace_dir
    /\ workspace_dir' = FALSE
    /\ tasks_dir' = [n \in Names |-> TaskFile("nofile")]
    /\ inbox_dir' = [n \in Names |-> MessageFile("nofile")]
    /\ outbox_dir' = [n \in Names |-> MessageFile("nofile")]
    /\ orchestrator' = "nofile"
    /\ flux_agents' = ConfigFile("nofile")
    /\ UNCHANGED <<registered_agents, msgs, sret, nhand>>

\* FileComm.init_workspace, file_comm.py lines 45-46: mkdir(parents=True,
\* exist_ok=True) keeps the entries of a directory that is already there; a
\* directory that is made has none.
Recreated(directory) ==
    [n \in DOMAIN directory |->
        IF "type" \in DOMAIN directory[n] THEN MessageFile("nofile")
        ELSE TaskFile("nofile")]
mkdir(directory) == directory

\* init_workspace, lines 60-74: the directories are made (mkdir with
\* exist_ok), orchestrator.json is written, load_agent_config is called.
init_workspace ==
    /\ workspace_dir' = TRUE
    /\ tasks_dir' = mkdir(tasks_dir)
    /\ inbox_dir' = mkdir(inbox_dir)
    /\ outbox_dir' = mkdir(outbox_dir)
    /\ orchestrator' = "status"
    /\ \E out \in Outcomes :
          /\ LoadAgentConfig(TRUE, out)
          /\ sret' = [op |-> "init_workspace", exc |-> out.exc, list |-> <<>>, n |-> 0]
    /\ UNCHANGED <<msgs, nhand>>

\* get_inbox_messages / get_outbox_messages, lines 364-372 and 388-396: as
\* get_tasks, with AgentMessage.from_dict and no filter.
RECURSIVE ScanMessages(_, _, _)
ScanMessages(op, files, directory) ==
    IF files = <<>> THEN Returned(op, <<>>, 0)
    ELSE LET data == read_json_sync(directory[Head(files)])
             message == AgentMessage_from_dict(data.list[1])
             rest == ScanMessages(op, Tail(files), directory)
         IN IF data.exc # "none" THEN Raising(op, data.exc)
            ELSE IF ~Truthy(data) THEN rest
            ELSE IF message.exc # "none" THEN Raising(op, message.exc)
            ELSE IF rest.exc # "none" THEN rest
            ELSE Returned(op, <<message.list[1]>> \o rest.list, 0)

get_inbox_messages(exists, directory) ==
    ScanMessages("get_inbox_messages", list_json_files(exists, directory), directory)

get_outbox_messages(exists, directory) ==
    ScanMessages("get_outbox_messages", list_json_files(exists, directory), directory)

\* The documents an agent may put under the name msg_<n>.json of the inbox.
HandMessages(n) ==
    {MessageFile("garbage"), MessageDocument(n, None, "agent"),
     MessageDocument(n, "bogus", "agent"), MessageDocument(n, RESPONSE, "agent")}

\* An agent writes a file into the inbox (complete, by rename).
agent_post(n, doc) ==
    /\ workspace_dir
    /\ nhand < MaxHand
    /\ doc # inbox_dir[n]
    /\ nhand' = nhand + 1
    /\ inbox_dir' = [inbox_dir EXCEPT ![n] = doc]
    /\ UNCHANGED <<workspace_dir, tasks_dir, outbox_dir, orchestrator, flux_agents,
                   registered_agents, msgs, sret>>

\* An agent consumes a message of the outbox: it removes the file.
agent_take(n) ==
    /\ workspace_dir
    /\ outbox_dir[n].kind # "nofile"
    /\ outbox_dir' = [outbox_dir EXCEPT ![n] = MessageFile("nofile")]
    /\ UNCHANGED <<workspace_dir, tasks_dir, inbox_dir, orchestrator, flux_agents,
                   registered_agents, msgs, sret, nhand>>

\* send_message, line 334: msg_path = outbox_dir / f"msg_{message.id}.json"
MsgPathFixed(id) == 1
msg_path(id) == id

\* send_message, lines 325-337: a message with a fresh id and sender
\* "flux-studio" is written into the outbox and returned; open() of the temp
\* file raises FileNotFoundError when the directory is missing and
\* PermissionError when it denies writes.
send_message(msg_type) ==
    /\ msgs < MaxStore
    /\ msgs' = msgs + 1
    /\ LET message == MessageDocument(msgs + 1, msg_type, "flux-studio")
       IN IF workspace_dir /\ ~readonly
          THEN /\ outbox_dir' = [outbox_dir EXCEPT ![msg_path(message.id)] = message]
               /\ sret' = Returned("send_message", <<message>>, 0)
          ELSE /\ sret' = Raising("send_message",
                                  IF workspace_dir THEN "PermissionError"
                                  ELSE "FileNotFoundError")
               /\ UNCHANGED outbox_dir
    /\ UNCHANGED <<workspace_dir, tasks_dir, inbox_dir, orchestrator, flux_agents,
                   registered_agents, nhand>>

\* delete_file, lines 134-141, on an inbox file: the file is removed; a
\* missing file is an OSError, answered with False.
RemoveAll(directory, n) == [m \in Names |-> MessageFile("nofile")]
remove(directory, n) == [directory EXCEPT ![n] = MessageFile("nofile")]

\* acknowledge_message, lines 404-405: delete_file on msg_<message_id>.json
\* of the inbox; n = 1 stands for True.
acknowledge_message(message_id) ==
    /\ inbox_dir' = IF readonly THEN inbox_dir ELSE remove(inbox_dir, message_id)
    /\ sret' = Returned("acknowledge_message", <<>>,
                        delete_file_result(inbox_dir[message_id].kind # "nofile"))
    /\ UNCHANGED <<workspace_dir, tasks_dir, outbox_dir, orchestrator, flux_agents,
                   registered_agents, msgs, nhand>>

\* The owner calls get_inbox_messages.
call_get_inbox_messages ==
    /\ sret' = get_inbox_messages(workspace_dir, inbox_dir)
    /\ UNCHANGED <<workspace_dir, tasks_dir, inbox_dir, outbox_dir, orchestrator,
                   flux_agents, registered_agents, msgs, nhand>>

\* The owner calls get_outbox_messages.
call_get_outbox_messages ==
    /\ sret' = get_outbox_messages(workspace_dir, outbox_dir)
    /\ UNCHANGED <<workspace_dir, tasks_dir, inbox_dir, outbox_dir, orchestrator,
                   flux_agents, registered_agents, msgs, nhand>>

----------------------------------------------------------------------------
(* Protocol codec: AgentTask / AgentMessage to_dict and from_dict, and the *)
(* JSON text write_json and read_json put between them.                    *)

\* Python objects: the type and what str() would show of the content.
PyNone == [py |-> "None", v |-> <<>>]
Str(s) == [py |-> "str", v |-> <<s>>]
PyList(items) == [py |-> "list", v |-> items]
PyTuple(items) == [py |-> "tuple", v |-> items]
PyPath(s) == [py |-> "Path", v |-> <<s>>]
PyDict(items) == [py |-> "dict", v |-> items]
Member(enum, name) == [py |-> enum, v |-> <<name>>]

\* No object yet.
Nothing == [cls |-> "nothing"]
ValueError == [cls |-> "ValueError"]

\* class TaskStatus(Enum), lines 31-38, and class MessageType(Enum), lines
\* 41-49: member name -> value.
TaskStatusValues ==
    [PENDING |-> PENDING, RUNNING |-> RUNNING, COMPLETED |-> COMPLETED,
     FAILED |-> FAILED, CANCELLED |-> CANCELLED]
MessageTypeValues ==
    [REQUEST |-> REQUEST, RESPONSE |-> RESPONSE, STATUS |-> "status",
     ERROR |-> "error", COMMENT |-> "comment", NOTIFICATION |-> "notification"]
EnumValues(enum) == IF enum = "TaskStatus" THEN TaskStatusValues ELSE MessageTypeValues

\* member.value
EnumValue(member) == Str(EnumValues(member.py)[member.v[1]])

\* TaskStatus(tag), MessageType(tag): the member with that value, ValueError
\* when there is none.
EnumCall(enum, tag) ==
    LET table == EnumValues(enum)
        names == {n \in DOMAIN table : Str(table[n]) = tag}
    IN IF names = {} THEN ValueError
       ELSE Member(enum, CHOOSE n \in names : TRUE)

\* data.get(key, default)
Get(data, key, default) == IF key \in DOMAIN data THEN data[key] ELSE default

\* PROTOCOL_VERSION, line 15.
PROTOCOL_VERSION == Str("1.0.0")

\* AgentTask.to_dict, lines 186-200.
AgentTask_to_dict_NoStamp(task) ==
    [protocol_version |-> PROTOCOL_VERSION, id |-> task.id,
     description |-> task.description, context |-> task.context,
     status |-> EnumValue(task.status), result |-> task.result, error |-> task.error,
     created_at |-> task.created_at, started_at |-> task.started_at,
     completed_at |-> PyNone, assigned_to |-> task.assigned_to]
AgentTask_to_dict(task) ==
    [protocol_version |-> PROTOCOL_VERSION, id |-> task.id,
     description |-> task.description, context |-> task.context,
     status |-> EnumValue(task.status), result |-> task.result, error |-> task.error,
     created_at |-> task.created_at, started_at |-> task.started_at,
     completed_at |-> task.completed_at, assigned_to |-> task.assigned_to]

\* AgentTask.from_dict, lines 202-216; created_at defaults to _now_iso().
AgentTask_decode(data) ==
    LET status == EnumCall("TaskStatus", Get(data, "status", Str(PENDING)))
    IN IF status = ValueError THEN ValueError
       ELSE [cls |-> "AgentTask", id |-> data.id,
             description |-> Get(data, "description", Str("")),
             context |-> Get(data, "context", PyDict(<<>>)),
             status |-> status,
             result |-> Get(data, "result", PyNone),
             error |-> Get(data, "error", PyNone),
             created_at |-> Get(data, "created_at", Str("now")),
             started_at |-> Get(data, "started_at", PyNone),
             completed_at |-> Get(data, "completed_at", PyNone),
             assigned_to |-> Get(data, "assigned_to", PyNone)]

\* AgentMessage.to_dict, lines 142-154.
AgentMessage_to_dict(message) ==
    [protocol_version |-> PROTOCOL_VERSION, id |-> message.id,
     type |-> EnumValue(message.type), sender |-> message.sender,
     recipient |-> message.recipient, content |-> message.content,
     timestamp |-> message.timestamp, in_reply_to |-> message.in_reply_to,
     metadata |-> message.metadata]

\* AgentMessage.from_dict, lines 156-168.
AgentMessage_decode(data) ==
    LET type == EnumCall("MessageType", data.type)
    IN IF type = ValueError THEN ValueError
       ELSE [cls |-> "AgentMessage", id |-> data.id,
             type |-> type,
             sender |-> Get(data, "sender", Str("unknown")),
             recipient |-> Get(data, "recipient", Str("flux-studio")),
             content |-> Get(data, "content", Str("")),
             timestamp |-> Get(data, "timestamp", Str("now")),
             in_reply_to |-> Get(data, "in_reply_to", PyNone),
             metadata |-> Get(data, "metadata", PyDict(<<>>))]

to_dict(x) == IF x.cls = "AgentTask" THEN AgentTask_to_dict(x) ELSE AgentMessage_to_dict(x)
from_dict(cls, data) ==
    IF cls = "AgentTask" THEN AgentTask_decode(data) ELSE AgentMessage_decode(data)

\* json.dumps(data, indent=2, default=str), line 71, on one value: None is
\* null, a str a string, a list or a tuple an array, a dict an object; any
\* other object goes through default=str and becomes a string.
json_dumps_value(val) ==
    IF val.py = "None" THEN [json |-> "null", v |-> <<>>]
    ELSE IF val.py = "str" THEN [json |-> "string", v |-> val.v]
    ELSE IF val.py \in {"list", "tuple"} THEN [json |-> "array", v |-> val.v]
    ELSE IF val.py = "dict" THEN [json |-> "object", v |-> val.v]
    ELSE [json |-> "string", v |-> val.v]

\* json.loads, line 101, on one value: null is None, a string a str, an
\* array a list, an object a dict.
json_loads_value(j) ==
    IF j.json = "null" THEN PyNone
    ELSE IF j.json = "string" THEN [py |-> "str", v |-> j.v]
    ELSE IF j.json = "array" THEN PyList(j.v)
    ELSE PyDict(j.v)

json_dumps(data) == [k \in DOMAIN data |-> json_dumps_value(data[k])]
json_loads(content) == [k \in DOMAIN content |-> json_loads_value(content[k])]

\* The values of the "result" and "context" arguments: Any.
PyResults ==
    {PyNone, Str("R1"), PyList(<<"1", "2">>), PyTuple(<<"1", "2">>), PyPath("/p")}
PyContexts == {PyDict(<<>>), PyDict(<<"current_file", "/p">>)}
PyStamps == {PyNone, Str("stamp")}

TaskStatusMembers == {Member("TaskStatus", n) : n \in DOMAIN TaskStatusValues}
MessageTypeMembers == {Member("MessageType", n) : n \in DOMAIN MessageTypeValues}

\* The AgentTask objects create_task and update_task may return.
AgentTasks ==
    {[cls |-> "AgentTask", id |-> Str("t1"), description |-> Str("d"),
      context |-> context, status |-> status, result |-> result, error |-> error,
      created_at |-> Str("stamp"), started_at |-> started_at,
      completed_at |-> completed_at, assigned_to |-> assigned_to] :
        context \in PyContexts, status \in TaskStatusMembers, result \in PyResults,
        error \in {PyNone, Str("E1")}, started_at \in PyStamps,
        completed_at \in PyStamps, assigned_to \in {PyNone, Str("a1")}}

\* The AgentMessage objects.
AgentMessages ==
    {[cls |-> "AgentMessage", id |-> Str("m1"), type |-> type, sender |-> sender,
      recipient |-> Str("agent"), content |-> Str("c"), timestamp |-> timestamp,
      in_reply_to |-> in_reply_to, metadata |-> metadata] :
        type \in MessageTypeMembers, sender \in {Str("flux-studio"), Str("agent")},
        timestamp \in PyStamps, in_reply_to \in {PyNone, Str("m0")},
        metadata \in PyContexts}

\* x.to_dict()
call_to_dict ==
    /\ value # Nothing
    /\ encoded = Nothing
    /\ encoded' = to_dict(value)
    /\ UNCHANGED <<value, decoded, text, got>>

\* type(x).from_dict(data)
call_from_dict ==
    /\ encoded # Nothing
    /\ decoded = Nothing
    /\ decoded' = from_dict(value.cls, encoded)
    /\ UNCHANGED <<value, encoded, text, got>>

\* create_task, lines 159-160, and update_task, lines 268-269: the task that
\* is returned is stored with write_json(task_path, task.to_dict()).
persist ==
    /\ value # Nothing
    /\ value.cls = "AgentTask"
    /\ text = Nothing
    /\ text' = json_dumps(to_dict(value))
    /\ UNCHANGED <<value, encoded, decoded, got>>

\* get_task, lines 225-229 (and the loop of get_tasks, lines 198-200):
\* read_json, then AgentTask.from_dict.
reread ==
    /\ text # Nothing
    /\ got = Nothing
    /\ got' = from_dict("AgentTask", json_loads(text))
    /\ UNCHANGED <<value, encoded, decoded, text>>

\* on_task_update, lines 415-417: _task_callbacks.append(callback).  No
\* other statement of the registry reads _task_callbacks.
on_task_update ==
    /\ ntcb < MaxCallbacks
    /\ ntcb' = ntcb + 1
    /\ UNCHANGED <<tcalls, due>>

\* History: the file of task id is written (wrote) by a registry operation;
\* start_watching, lines 428-447, starts one watcher, on the inbox, whose
\* callback calls the message callbacks only, so no invocation is recorded.
TaskWritten(id, wrote) ==
    /\ due' = [due EXCEPT ![id] = @ \/ (wrote /\ watcher_task # 0 /\ ntcb > 0)]
    /\ UNCHANGED <<ntcb, tcalls>>

\* No task callback registered or called.
InitNotify ==
    /\ ntcb = 0
    /\ tcalls = [id \in TaskIds |-> 0]
    /\ due = [id \in TaskIds |-> FALSE]

\* The directories of the workspace are made read-only (chmod a-w) or
\* writable again.
chmod(deny) ==
    /\ workspace_dir
    /\ readonly # deny
    /\ readonly' = deny

----------------------------------------------------------------------------
(* Editor: VimTextArea._on_key and MarkdownEditor.new_file.                *)

MaxKeys == 5

\* The keys pressed; all but escape are printable.
Keys == {"h", "e", "l", "o", "i", ":", "escape"}
Printable(key) == key # "escape"

\* NORMAL_MODE_KEYS, lines 23-44, for the keys pressed.
NORMAL_MODE_KEYS == {"h", "l", "o", "i", ":"}

\* TextArea.insert at the cursor.
InsertAt(content, at, char) ==
    [i \in 1..(Len(content) + 1) |->
        IF i <= at THEN content[i] ELSE IF i = at + 1 THEN char ELSE content[i - 1]]

\* action_cursor_line_end: the cursor goes before the next line break, or
\* to the end of the text.
LineEnd(content, at) ==
    IF \E i \in (at + 1)..Len(content) : content[i] = "NL"
    THEN (CHOOSE i \in (at + 1)..Len(content) :
             content[i] = "NL" /\ \A j \in (at + 1)..(i - 1) : content[j] # "NL") - 1
    ELSE Len(content)

\* MarkdownEditor._autosave_timer: no task, a task asleep in
\* _debounce_autosave with the content it was created with, or a task that
\* has ended or was cancelled.
NoTimer == [state |-> "none", content |-> <<>>]
Pending(content) == [state |-> "pending", content |-> content]
Ended == [state |-> "ended", content |-> <<>>]

\* MarkdownEditor._schedule_autosave, lines 321-328: the timer that is set
\* is cancelled; with a current file a new one is created.
schedule_autosave(content) ==
    IF current_file # None THEN Pending(content)
    ELSE IF autosave_timer = NoTimer THEN NoTimer
    ELSE Ended

\* MarkdownEditor.on_text_area_changed, lines 307-319, run for the Changed
\* message an edit of the text posts.
on_text_area_changed ==
    /\ is_modified' = TRUE
    /\ autosave_timer' = schedule_autosave(text_area')

\* TextArea._on_key for a printable key: the character is inserted at the
\* cursor.
TextArea_on_key(key) ==
    IF Printable(key)
    THEN /\ text_area' = InsertAt(text_area, cursor, key)
         /\ cursor' = cursor + 1
         /\ on_text_area_changed
    ELSE UNCHANGED <<text_area, cursor, is_modified, autosave_timer>>

\* VimTextArea._on_key, lines 74-159, with the vim actions of lines 162-187.
on_key(key) ==
    /\ Len(typed) < MaxKeys
    /\ typed' = IF Printable(key) THEN Append(typed, key) ELSE typed
    /\ IF vim_mode = "COMMAND"
       THEN /\ IF key = "escape"
               THEN command_buffer' = <<>> /\ vim_mode' = "NORMAL"
               ELSE command_buffer' = Append(command_buffer, key) /\ vim_mode' = vim_mode
            /\ UNCHANGED <<text_area, cursor, is_modified, autosave_timer>>
       ELSE IF vim_mode = "NORMAL"
       THEN IF key \in NORMAL_MODE_KEYS
            THEN IF key = "h"
                 THEN /\ cursor' = IF cursor > 0 THEN cursor - 1 ELSE 0
                      /\ UNCHANGED <<vim_mode, command_buffer, text_area, is_modified, autosave_timer>>
                 ELSE IF key = "l"
                 THEN /\ cursor' = IF cursor < Len(text_area) THEN cursor + 1 ELSE cursor
                      /\ UNCHANGED <<vim_mode, command_buffer, text_area, is_modified, autosave_timer>>
                 ELSE IF key = "o"
                 THEN /\ text_area' = InsertAt(text_area, LineEnd(text_area, cursor), "NL")
                      /\ cursor' = LineEnd(text_area, cursor) + 1
                      /\ on_text_area_changed
                      /\ vim_mode' = "INSERT"
                      /\ UNCHANGED command_buffer
                 ELSE IF key = "i"
                 THEN /\ vim_mode' = "INSERT"
                      /\ UNCHANGED <<command_buffer, text_area, cursor, is_modified, autosave_timer>>
                 ELSE /\ command_buffer' = <<":">>
                      /\ vim_mode' = "COMMAND"
                      /\ UNCHANGED <<text_area, cursor, is_modified, autosave_timer>>
            ELSE IF Printable(key)
            THEN UNCHANGED <<vim_mode, command_buffer, text_area, cursor, is_modified, autosave_timer>>
            ELSE /\ TextArea_on_key(key)
                 /\ UNCHANGED <<vim_mode, command_buffer>>
       ELSE IF key = "escape"
            THEN /\ vim_mode' = "NORMAL"
                 /\ UNCHANGED <<command_buffer, text_area, cursor, is_modified, autosave_timer>>
            ELSE /\ TextArea_on_key(key)
                 /\ UNCHANGED <<vim_mode, command_buffer>>
    /\ UNCHANGED current_file

\* MarkdownEditor.new_file, lines 344-357: the text is loaded with Changed
\* prevented.
new_file ==
    /\ current_file' = None
    /\ text_area' = <<>>
    /\ cursor' = 0
    /\ is_modified' = FALSE
    /\ UNCHANGED <<vim_mode, command_buffer, typed, autosave_timer>>

\* A freshly started editor: lines 59-60 and 278-285.
InitEditor ==
    /\ vim_mode = "NORMAL"
    /\ command_buffer = <<>>
    /\ text_area = <<>>
    /\ cursor = 0
    /\ is_modified = FALSE
    /\ current_file = None
    /\ typed = <<>>
    /\ autosave_timer = NoTimer

----------------------------------------------------------------------------
(* Application start: FluxStudioApp.__init__, compose, on_mount and the    *)
(* submission of a task from the agent panel, on the paths of the project *)
(* directory.                                                             *)

MaxSubmits == 2

\* The paths below the project directory the application touches.
WORKSPACE == ".flux-studio"
TASKS == ".flux-studio/tasks"
INBOX == ".flux-studio/messages/inbox"
OUTBOX == ".flux-studio/messages/outbox"
MARKER == ".flux-studio/orchestrator.json"
AGENTS == ".flux-studio/flux_agents.json"
RECENT == ".flux-studio/recent_files.json"
BACKUPS == ".flux-studio/backups"
Below == {TASKS, INBOX, OUTBOX, MARKER, AGENTS, RECENT, BACKUPS}

\* AgentRegistry.init_workspace, agent_registry.py lines 60-74, on the
\* paths: the directories of FileComm.init_workspace and the marker file.
init_workspace_paths(paths) == paths \cup {WORKSPACE, TASKS, INBOX, OUTBOX, MARKER}

\* FileComm.workspace_exists, file_comm.py lines 59-61, on the paths.
workspace_exists_in(paths) == WORKSPACE \in paths

\* RecentFilesManager._ensure_storage and AutoSaveManager._ensure_storage,
\* file_operations.py lines 18-24 and 62-65.
ensure_storage(paths) == paths \cup {WORKSPACE, RECENT, BACKUPS}

\* FluxStudioApp.compose, app.py lines 91-104: MarkdownEditor() creates its
\* RecentFilesManager and AutoSaveManager.
compose ==
    /\ app = "created"
    /\ app' = "composed"
    /\ disk' = ensure_storage(disk)
    /\ UNCHANGED <<project, submitted, persisted, app_exc>>

\* FluxStudioApp.on_mount, app.py lines 106-111.
on_mount ==
    /\ app = "composed"
    /\ app' = "mounted"
    /\ disk' = IF ~workspace_exists_in(disk)
                  THEN init_workspace_paths(disk)
                  ELSE disk
    /\ UNCHANGED <<project, submitted, persisted, app_exc>>

\* AgentPanel.refresh_data, agent_panel.py lines 232-246: with a workspace
\* load_agent_config writes the default configuration when there is none.
refresh_data ==
    /\ app = "mounted"
    /\ disk' = IF workspace_exists_in(disk) THEN disk \cup {AGENTS} ELSE disk
    /\ UNCHANGED <<app, project, submitted, persisted, app_exc>>

\* FluxStudioApp.on_agent_panel_task_submitted, app.py lines 191-206:
\* create_task writes the task file through write_json, whose open of the
\* temporary file fails when the tasks directory is missing.
on_agent_panel_task_submitted ==
    /\ app = "mounted"
    /\ submitted < MaxSubmits
    /\ submitted' = submitted + 1
    /\ IF TASKS \in disk
       THEN persisted' = persisted + 1 /\ app_exc' = "none"
       ELSE persisted' = persisted /\ app_exc' = "FileNotFoundError"
    /\ UNCHANGED <<app, disk, project>>

\* FluxStudioApp.__init__, app.py lines 86-89, in a project directory with
\* the given paths.
InitApp ==
    /\ app = "created"
    /\ disk = {}
    /\ project = {}
    /\ submitted = 0
    /\ persisted = 0
    /\ app_exc = "none"

----------------------------------------------------------------------------
(* Operations on one task file interleaved at their awaits: update_task    *)
(* and cancel_task read the task (await get_task), then write it (await    *)
(* write_json); cleanup_completed_tasks scans (await get_tasks), then      *)
(* deletes (await delete_task).  An external agent rewrites the file.      *)

MaxCoros == 2
Coros == 1..MaxCoros

\* A coroutine that has not been called.
NotCalled == [op |-> "none", pc |-> "idle", task |-> NoTask, status |-> None, ret |-> None]

\* cleanup_completed_tasks, lines 472-476, for one scanned task: terminal,
\* completed_at set and before the cutoff.
PastCutoff(task, cutoff) ==
    /\ task.status \in Terminal
    /\ task.completed_at # 0
    /\ task.completed_at < cutoff

\* update_task, lines 250-252: get_task, None when there is no file.
update_task_read(c, status) ==
    /\ co[c].op = "none"
    /\ co' = [co EXCEPT ![c] =
                 IF stored = NoTask
                 THEN [op |-> "update_task", pc |-> "done", task |-> NoTask,
                       status |-> status, ret |-> None]
                 ELSE [op |-> "update_task", pc |-> "write", task |-> stored,
                       status |-> status, ret |-> None]]
    /\ late' = (late \/ cancel_ok)
    /\ UNCHANGED <<stored, cancel_ok, gone>>

\* update_task, lines 254-271: the task read earlier is changed and written.
update_task_write(c) ==
    /\ co[c].op = "update_task" /\ co[c].pc = "write"
    /\ stored' = ApplyUpdate(co[c].task, co[c].status, None, None, now)
    /\ co' = [co EXCEPT ![c].pc = "done", ![c].ret = "task"]
    /\ UNCHANGED <<cancel_ok, late, gone>>

\* cancel_task, lines 279-284: get_task and the terminal-state guard.
cancel_task_read(c) ==
    /\ co[c].op = "none"
    /\ co' = [co EXCEPT ![c] =
                 IF stored = NoTask \/ AlreadyTerminal(stored)
                 THEN [op |-> "cancel_task", pc |-> "done", task |-> stored,
                       status |-> None, ret |-> "false"]
                 ELSE [op |-> "cancel_task", pc |-> "write", task |-> stored,
                       status |-> None, ret |-> None]]
    /\ UNCHANGED <<stored, cancel_ok, late, gone>>

\* cancel_task, lines 286-290: the task read earlier is cancelled and written.
cancel_task_write(c) ==
    /\ co[c].op = "cancel_task" /\ co[c].pc = "write"
    /\ stored' = cancel(co[c].task, now)
    /\ co' = [co EXCEPT ![c].pc = "done", ![c].ret = "true"]
    /\ cancel_ok' = TRUE
    /\ late' = FALSE
    /\ UNCHANGED gone

\* cleanup_completed_tasks(0), lines 470-476: get_tasks and the test of the
\* task it returned.
cleanup_scan(c) ==
    /\ co[c].op = "none"
    /\ co' = [co EXCEPT ![c] =
                 IF stored # NoTask /\ PastCutoff(stored, now)
                 THEN [op |-> "cleanup_completed_tasks", pc |-> "delete", task |-> stored,
                       status |-> None, ret |-> None]
                 ELSE [op |-> "cleanup_completed_tasks", pc |-> "done", task |-> stored,
                       status |-> None, ret |-> "0"]]
    /\ UNCHANGED <<stored, cancel_ok, late, gone>>

\* cleanup_completed_tasks, lines 477-478: delete_task(task.id) removes
\* whatever the file holds now.
cleanup_delete(c) ==
    /\ co[c].op = "cleanup_completed_tasks" /\ co[c].pc = "delete"
    /\ IF stored = NoTask
       THEN /\ co' = [co EXCEPT ![c].pc = "done", ![c].ret = "0"]
            /\ UNCHANGED <<stored, gone>>
       ELSE /\ co' = [co EXCEPT ![c].pc = "done", ![c].ret = "1"]
            /\ stored' = NoTask
            /\ gone' = stored.status
    /\ UNCHANGED <<cancel_ok, late>>

\* An external agent rewrites the task file with another status.
agent_rewrite(status) ==
    /\ stored # NoTask
    /\ stored.status # status
    /\ stored' = [stored EXCEPT !.status = status]
    /\ late' = (late \/ cancel_ok)
    /\ UNCHANGED <<co, cancel_ok, gone>>

\* No coroutine called; no task file.
InitInterleave ==
    /\ stored = NoTask
    /\ co = [c \in Coros |-> NotCalled]
    /\ cancel_ok = FALSE
    /\ late = FALSE
    /\ gone = None

----------------------------------------------------------------------------
(* Histories of the inbox files across watchers.                           *)

\* History: file f appears, or is rewritten in place.
Born(f) ==
    /\ idle_born' = [idle_born EXCEPT ![f] =
                        IF inbox[f] = "absent" THEN watcher_task = 0 ELSE @]
    /\ UNCHANGED <<covered, passed, h2vars, h3vars>>

\* History: file f leaves the directory.
Left(f) ==
    /\ idle_born' = [idle_born EXCEPT ![f] = FALSE]
    /\ covered' = [covered EXCEPT ![f] = FALSE]
    /\ UNCHANGED <<passed, h2vars, h3vars>>

\* History: the watcher takes its baseline, lines 167-168.
Based(w) ==
    /\ covered' = [f \in Files |-> idle_born[f] /\ f \in Glob]
    /\ UNCHANGED <<idle_born, passed, h2vars, h3vars>>

\* History: the callback is called for the next new file, lines 179-184.
Passed(w) ==
    /\ passed' = [passed EXCEPT ![NextNew(watch[w])] = @ \/ covered[NextNew(watch[w])]]
    /\ UNCHANGED <<idle_born, covered, h2vars, h3vars>>

\* A name as a tick finds it: absent also when the directory is missing.
Found(f) == IF inboxdir /\ inbox[f] # "absent" THEN "present" ELSE "absent"

\* History: the watcher takes its baseline, lines 167-168.
BasedNames(w) ==
    /\ at_tick' = [f \in Files |-> Found(f)]
    /\ ncalls' = [f \in Files |-> 0]
    /\ owed' = {}
    /\ UNCHANGED <<h1vars, h3vars>>

\* History: the sleep of a tick ends, lines 171-176.
Ticked(w) ==
    /\ at_tick' = [f \in Files |-> Found(f)]
    /\ ncalls' = [f \in Files |-> IF Found(f) = "present" THEN ncalls[f] ELSE 0]
    /\ owed' = {f \in Files : Found(f) = "present" /\ at_tick[f] = "absent"}
    /\ UNCHANGED <<h1vars, h3vars>>

\* History: the callback is called for the next new file, lines 179-184.
CalledFor(w) ==
    /\ ncalls' = [ncalls EXCEPT ![NextNew(watch[w])] = Bump(@)]
    /\ owed' = owed \ {NextNew(watch[w])}
    /\ UNCHANGED <<h1vars, at_tick, h3vars>>

\* History: watch_inbox has read a file, lines 429-433; for a valid message
\* with callbacks registered the first one is called, and returns or raises.
Observed(w) ==
    /\ fanned' = FALSE
    /\ IF watch'[w].pc = "fanout"
       THEN /\ flog' = <<1>>
            /\ fregistered' = ncb
            /\ fout' \in {"returned", "raised"}
            /\ fraised' = IF fout' = "raised" THEN 1 ELSE 0
       ELSE /\ flog' = <<>>
            /\ fregistered' = 0
            /\ fout' = "returned"
            /\ fraised' = 0
    /\ UNCHANGED <<h1vars, h2vars>>

\* History: the running callback has ended, lines 434-439; the next one is
\* called, and returns or raises, or the fan-out is over.
Fanning(w) ==
    /\ IF watch'[w].pc = "fanout"
       THEN /\ flog' = Append(flog, watch'[w].cbidx)
            /\ fout' \in {"returned", "raised"}
            /\ fraised' = IF fraised = 0 /\ fout' = "raised" THEN watch'[w].cbidx
                          ELSE fraised
            /\ UNCHANGED <<fregistered, fanned>>
       ELSE /\ fanned' = (watch'[w].pc # "cancelled")
            /\ fout' = "returned"
            /\ UNCHANGED <<flog, fregistered, fraised>>
    /\ UNCHANGED <<h1vars, h2vars>>

InitHistories ==
    /\ idle_born = [f \in Files |-> FALSE]
    /\ covered = [f \in Files |-> FALSE]
    /\ passed = [f \in Files |-> FALSE]
    /\ at_tick = [f \in Files |-> "absent"]
    /\ ncalls = [f \in Files |-> 0]
    /\ owed = {}
    /\ fout = "returned"
    /\ flog = <<>>
    /\ fregistered = 0
    /\ fanned = FALSE
    /\ fraised = 0

\* The files the editor is pointed at.
EditPaths == {"a.md", "b.md"}

\* A path without a file, and a file with its text.
NoFile == [exists |-> FALSE, text |-> <<>>]
File(content) == [exists |-> TRUE, text |-> content]

\* AutoSaveManager.__init__, lines 58-60: the backup directory starts empty;
\* nothing was saved and no file is current.
InitBackups ==
    /\ on_disk = [P \in EditPaths |-> NoFile]
    /\ backup_files = [P \in EditPaths |-> NoFile]
    /\ clean = [P \in EditPaths |-> FALSE]
    /\ held = [P \in EditPaths |-> {}]

\* Nothing of the later layers has happened.
InitLater == InitInterleave /\ InitHistories /\ InitBackups

\* History: the tick of watcher w has listed the directory, line 176.
Listed(w) ==
    /\ batch' = [batch EXCEPT ![w] = IF watch'[w].pc = "deliver" THEN @ + 1 ELSE @]
    /\ UNCHANGED dlog

\* History: watcher w calls the callback for the next new file, lines
\* 179-184.
Logged(w) ==
    /\ dlog' = [dlog EXCEPT ![w] =
                    Append(@, [file |-> NextNew(watch[w]), batch |-> batch[w]])]
    /\ UNCHANGED batch

\* Nothing encoded, stored or read yet; no task callback; no fault; nothing
\* delivered.
InitOther ==
    /\ InitLater
    /\ InitApp
    /\ InitEditor
    /\ batch = [w \in Watchers |-> 0]
    /\ dlog = [w \in Watchers |-> <<>>]
    /\ readonly = FALSE
    /\ value = Nothing
    /\ encoded = Nothing
    /\ decoded = Nothing
    /\ text = Nothing
    /\ got = Nothing
    /\ InitNotify

\* An initialised workspace: empty directories, the status marker and the
\* default configuration written, nothing loaded or called yet.
InitStore ==
    /\ workspace_dir = TRUE
    /\ tasks_dir = [n \in Names |-> TaskFile("nofile")]
    /\ inbox_dir = [n \in Names |-> MessageFile("nofile")]
    /\ outbox_dir = [n \in Names |-> MessageFile("nofile")]
    /\ orchestrator = "status"
    /\ flux_agents = default_config
    /\ registered_agents = <<>>
    /\ msgs = 0
    /\ sret = Returned("none", <<>>, 0)
    /\ nhand = 0

vars == <<fvars, tvars, wvars, svars, ovars>>

\* One writer and one reader of the same final path, and the writer may die.
InitWrite == InitFile /\ InitTasks /\ InitWatch /\ InitStore /\ InitOther

NextWrite ==
    \/ (\E d \in Docs : write_json_open("w1", d)) /\ UNCHANGED <<tvars, wvars, svars, ovars>>
    \/ write_json_write("w1") /\ UNCHANGED <<tvars, wvars, svars, ovars>>
    \/ write_json_rename("w1") /\ UNCHANGED <<tvars, wvars, svars, ovars>>
    \/ write_json_crash("w1") /\ UNCHANGED <<tvars, wvars, svars, ovars>>
    \/ read_json_exists /\ UNCHANGED <<tvars, wvars, svars, ovars>>
    \/ read_json_open /\ UNCHANGED <<tvars, wvars, svars, ovars>>
    \/ read_json_read /\ UNCHANGED <<tvars, wvars, svars, ovars>>
    \/ read_json_return /\ UNCHANGED <<tvars, wvars, svars, ovars>>

SpecWrite == InitWrite /\ [][NextWrite]_vars

\* A caller holds a task or a message, encodes and decodes it, stores and
\* rereads it.
InitCodec ==
    /\ IdleFile /\ InitTasks /\ InitWatch /\ InitStore
    /\ value \in AgentTasks \cup AgentMessages
    /\ encoded = Nothing
    /\ decoded = Nothing
    /\ text = Nothing
    /\ got = Nothing
    /\ InitNotify
    /\ readonly = FALSE
    /\ batch = [w \in Watchers |-> 0]
    /\ dlog = [w \in Watchers |-> <<>>]
    /\ InitEditor
    /\ InitApp
    /\ InitLater

NextCodec ==
    \/ call_to_dict /\ UNCHANGED <<fvars, tvars, wvars, svars, nvars, xvars, lvars, evars, avars, pvars>>
    \/ call_from_dict /\ UNCHANGED <<fvars, tvars, wvars, svars, nvars, xvars, lvars, evars, avars, pvars>>
    \/ persist /\ UNCHANGED <<fvars, tvars, wvars, svars, nvars, xvars, lvars, evars, avars, pvars>>
    \/ reread /\ UNCHANGED <<fvars, tvars, wvars, svars, nvars, xvars, lvars, evars, avars, pvars>>

SpecCodec == InitCodec /\ [][NextCodec]_vars

\* The owner registers task callbacks, starts watching and creates, updates
\* and cancels tasks; the watcher coroutine runs whenever it can.
InitNotifying == IdleFile /\ InitTasks /\ InitWatch /\ InitStore /\ InitOther

NextNotify ==
    \/ on_task_update /\ UNCHANGED <<fvars, tvars, wvars, svars, cvars, xvars, lvars, evars, avars, pvars>>
    \/ start_watching /\ UNCHANGED <<fvars, tvars, svars, cvars, nvars, xvars, lvars, evars, avars, pvars>>
    \/ (\E w \in Watchers : watch_baseline(w))
          /\ UNCHANGED <<fvars, tvars, svars, cvars, nvars, xvars, lvars, evars, avars, pvars>>
    \/ (\E w \in Watchers : watch_tick(w))
          /\ UNCHANGED <<fvars, tvars, svars, cvars, nvars, xvars, lvars, evars, avars, pvars>>
    \/ (create_task /\ TaskWritten(used + 1, TRUE))
          /\ UNCHANGED <<fvars, wvars, svars, cvars, xvars, lvars, evars, avars, pvars>>
    \/ (\E id \in TaskIds, status \in {RUNNING, COMPLETED} :
            update_task(id, status, None, None) /\ TaskWritten(id, tasks[id] # NoTask))
          /\ UNCHANGED <<fvars, wvars, svars, cvars, xvars, lvars, evars, avars, pvars>>
    \/ (\E id \in TaskIds : cancel_task(id) /\ TaskWritten(id, tasks'[id] # tasks[id]))
          /\ UNCHANGED <<fvars, wvars, svars, cvars, xvars, lvars, evars, avars, pvars>>

SpecNotify == InitNotifying /\ [][NextNotify]_vars /\ WF_vars(NextNotify)

\* Messages and tasks are written, sent, acknowledged and deleted while the
\* directories are writable or read-only.
InitFaults == IdleFile /\ InitTasks /\ InitWatch /\ InitStore /\ InitOther

NextFaults ==
    \/ (\E deny \in BOOLEAN : chmod(deny))
          /\ UNCHANGED <<fvars, tvars, wvars, svars, cvars, nvars, lvars, evars, avars, pvars>>
    \/ (\E n \in Names : ~readonly /\ agent_post(n, MessageDocument(n, RESPONSE, "agent")))
          /\ UNCHANGED <<fvars, tvars, wvars, ovars>>
    \/ (\E n \in Names : ~readonly /\ hand_write_task(n, TaskDocument(n, PENDING, NoStamp)))
          /\ UNCHANGED <<fvars, tvars, wvars, ovars>>
    \/ (\E t \in MessageType : send_message(t)) /\ UNCHANGED <<fvars, tvars, wvars, ovars>>
    \/ (\E n \in Names : acknowledge_message(n)) /\ UNCHANGED <<fvars, tvars, wvars, ovars>>
    \/ (\E n \in Names : delete_task(n)) /\ UNCHANGED <<fvars, tvars, wvars, ovars>>

SpecFaults == InitFaults /\ [][NextFaults]_vars

\* Agents write files into the inbox while the watcher lists it and calls
\* the callback for what is new.
InitOrder == IdleFile /\ InitTasks /\ InitWatch /\ InitStore /\ InitOther

NextOrder ==
    \/ on_message /\ UNCHANGED <<fvars, tvars, svars, ovars>>
    \/ start_watching /\ UNCHANGED <<fvars, tvars, svars, ovars>>
    \/ (\E w \in Watchers : watch_baseline(w)) /\ UNCHANGED <<fvars, tvars, svars, ovars>>
    \/ (\E w \in Watchers : watch_tick(w) /\ Listed(w))
          /\ UNCHANGED <<fvars, tvars, svars, cvars, nvars, xvars, evars, avars, pvars>>
    \/ (\E w \in Watchers : watch_callback(w) /\ Logged(w))
          /\ UNCHANGED <<fvars, tvars, svars, cvars, nvars, xvars, evars, avars, pvars>>
    \/ (\E w \in Watchers : watch_fanout(w)) /\ UNCHANGED <<fvars, tvars, svars, ovars>>
    \/ (\E f \in Files, kind \in Kinds : agent_write(f, kind))
          /\ UNCHANGED <<fvars, tvars, svars, ovars>>
    \/ (\E f \in Files : agent_delete(f)) /\ UNCHANGED <<fvars, tvars, svars, ovars>>

SpecOrder == InitOrder /\ [][NextOrder]_vars

\* Keys are pressed in a freshly started editor, and new_file is called.
InitEditing == IdleFile /\ InitTasks /\ InitWatch /\ InitStore /\ InitOther

NextEditor ==
    \/ (\E key \in Keys : on_key(key))
          /\ UNCHANGED <<fvars, tvars, wvars, svars, cvars, nvars, xvars, lvars, avars, pvars>>
    \/ new_file /\ UNCHANGED <<fvars, tvars, wvars, svars, cvars, nvars, xvars, lvars, avars, pvars>>

SpecEditor == InitEditing /\ [][NextEditor]_vars

\* The application is started in a project directory that has no
\* .flux-studio directory, or one that has the directory and some of the
\* paths below it.
InitStarting ==
    /\ IdleFile /\ InitTasks /\ InitWatch /\ InitStore
    /\ InitEditor /\ InitNotify
    /\ value = Nothing /\ encoded = Nothing /\ decoded = Nothing
    /\ text = Nothing /\ got = Nothing
    /\ readonly = FALSE
    /\ batch = [w \in Watchers |-> 0]
    /\ dlog = [w \in Watchers |-> <<>>]
    /\ app = "created"
    /\ disk \in {{}} \cup {below \cup {WORKSPACE} : below \in SUBSET Below}
    /\ project = disk
    /\ submitted = 0
    /\ persisted = 0
    /\ app_exc = "none"
    /\ InitLater

NextApp ==
    \/ compose /\ UNCHANGED <<fvars, tvars, wvars, svars, cvars, nvars, xvars, lvars, evars, pvars>>
    \/ on_mount /\ UNCHANGED <<fvars, tvars, wvars, svars, cvars, nvars, xvars, lvars, evars, pvars>>
    \/ refresh_data /\ UNCHANGED <<fvars, tvars, wvars, svars, cvars, nvars, xvars, lvars, evars, pvars>>
    \/ on_agent_panel_task_submitted
          /\ UNCHANGED <<fvars, tvars, wvars, svars, cvars, nvars, xvars, lvars, evars, pvars>>

SpecApp == InitStarting /\ [][NextApp]_vars

\* Agents post messages into the inbox under any of the file names, whatever
\* the id inside; the owner lists and acknowledges them.
InitInbox == IdleFile /\ InitTasks /\ InitWatch /\ InitStore /\ InitOther

NextInbox ==
    \/ (\E n \in Names, id \in Names, t \in {REQUEST, RESPONSE} :
            agent_post(n, MessageDocument(id, t, "agent")))
          /\ UNCHANGED <<fvars, tvars, wvars, ovars>>
    \/ call_get_inbox_messages /\ UNCHANGED <<fvars, tvars, wvars, ovars>>
    \/ (\E id \in Names : acknowledge_message(id)) /\ UNCHANGED <<fvars, tvars, wvars, ovars>>

SpecInbox == InitInbox /\ [][NextInbox]_vars

\* Watchers are started and stopped while agents write and remove inbox
\* files.
InitIdle == IdleFile /\ InitTasks /\ InitWatch /\ InitStore /\ InitOther

NextIdle ==
    \/ on_message /\ UNCHANGED <<fvars, tvars, svars, ovars>>
    \/ start_watching /\ UNCHANGED <<fvars, tvars, svars, ovars>>
    \/ stop_watching /\ UNCHANGED <<fvars, tvars, svars, ovars>>
    \/ (\E w \in Watchers : watch_baseline(w) /\ Based(w))
          /\ UNCHANGED <<fvars, tvars, svars, cvars, nvars, xvars, lvars, evars, avars, rvars, bvars>>
    \/ (\E w \in Watchers : watch_tick(w)) /\ UNCHANGED <<fvars, tvars, svars, ovars>>
    \/ (\E w \in Watchers : watch_callback(w) /\ Passed(w))
          /\ UNCHANGED <<fvars, tvars, svars, cvars, nvars, xvars, lvars, evars, avars, rvars, bvars>>
    \/ (\E w \in Watchers : watch_fanout(w)) /\ UNCHANGED <<fvars, tvars, svars, ovars>>
    \/ (\E f \in Files, kind \in {"valid", "garbage"} : agent_write(f, kind) /\ Born(f))
          /\ UNCHANGED <<fvars, tvars, svars, cvars, nvars, xvars, lvars, evars, avars, rvars, bvars>>
    \/ (\E f \in Files : agent_delete(f) /\ Left(f))
          /\ UNCHANGED <<fvars, tvars, svars, cvars, nvars, xvars, lvars, evars, avars, rvars, bvars>>

SpecIdle == InitIdle /\ [][NextIdle]_vars

\* One watcher polls while agents write, rewrite and remove inbox files and
\* the inbox directory is removed and made again.
InitTicks == IdleFile /\ InitTasks /\ InitWatch /\ InitStore /\ InitOther

NextTicks ==
    \/ on_message /\ UNCHANGED <<fvars, tvars, svars, ovars>>
    \/ start_watching /\ UNCHANGED <<fvars, tvars, svars, ovars>>
    \/ (\E w \in Watchers : watch_baseline(w) /\ BasedNames(w))
          /\ UNCHANGED <<fvars, tvars, svars, cvars, nvars, xvars, lvars, evars, avars, rvars, bvars>>
    \/ (\E w \in Watchers : watch_tick(w) /\ Ticked(w))
          /\ UNCHANGED <<fvars, tvars, svars, cvars, nvars, xvars, lvars, evars, avars, rvars, bvars>>
    \/ (\E w \in Watchers : watch_callback(w) /\ CalledFor(w))
          /\ UNCHANGED <<fvars, tvars, svars, cvars, nvars, xvars, lvars, evars, avars, rvars, bvars>>
    \/ (\E w \in Watchers : watch_fanout(w)) /\ UNCHANGED <<fvars, tvars, svars, ovars>>
    \/ (\E f \in Files, kind \in Kinds : agent_write(f, kind))
          /\ UNCHANGED <<fvars, tvars, svars, ovars>>
    \/ (\E f \in Files : agent_delete(f)) /\ UNCHANGED <<fvars, tvars, svars, ovars>>
    \/ dir_remove /\ UNCHANGED <<fvars, tvars, svars, ovars>>
    \/ dir_create /\ UNCHANGED <<fvars, tvars, svars, ovars>>

SpecTicks == InitTicks /\ [][NextTicks]_vars

\* Message callbacks are registered, return or raise; watchers are started
\* and stopped while agents write inbox files.
InitFanout == IdleFile /\ InitTasks /\ InitWatch /\ InitStore /\ InitOther

NextFanout ==
    \/ on_message /\ UNCHANGED <<fvars, tvars, svars, ovars>>
    \/ start_watching /\ UNCHANGED <<fvars, tvars, svars, ovars>>
    \/ stop_watching /\ UNCHANGED <<fvars, tvars, svars, ovars>>
    \/ (\E w \in Watchers : watch_baseline(w)) /\ UNCHANGED <<fvars, tvars, svars, ovars>>
    \/ (\E w \in Watchers : watch_tick(w)) /\ UNCHANGED <<fvars, tvars, svars, ovars>>
    \/ (\E w \in Watchers : watch_callback(w) /\ Observed(w))
          /\ UNCHANGED <<fvars, tvars, svars, cvars, nvars, xvars, lvars, evars, avars, rvars, bvars>>
    \/ (\E w \in Watchers : watch_fanout(w) /\ Fanning(w))
          /\ UNCHANGED <<fvars, tvars, svars, cvars, nvars, xvars, lvars, evars, avars, rvars, bvars>>
    \/ (\E f \in Files, kind \in {"valid", "malformed"} : agent_write(f, kind))
          /\ UNCHANGED <<fvars, tvars, svars, ovars>>

SpecFanout == InitFanout /\ [][NextFanout]_vars

\* One task file, created earlier with any status; the clock stands at
\* MaxTime and the file's completed_at, when set, lies before it.
InitTaskFile ==
    /\ IdleFile /\ InitWatch /\ InitStore
    /\ InitApp /\ InitEditor /\ InitNotify
    /\ value = Nothing /\ encoded = Nothing /\ decoded = Nothing
    /\ text = Nothing /\ got = Nothing
    /\ readonly = FALSE
    /\ batch = [w \in Watchers |-> 0]
    /\ dlog = [w \in Watchers |-> <<>>]
    /\ tasks = [id \in TaskIds |-> NoTask]
    /\ used = 0
    /\ now = MaxTime
    /\ phase = [id \in TaskIds |-> [step |-> 0, r |-> None]]
    /\ ret = None
    /\ nops = 0
    /\ ran = [id \in TaskIds |-> FALSE]
    /\ stored \in {NewTask(1), start(NewTask(1), 1)}
                  \cup {complete(NewTask(1), "R1", t) : t \in 1..(MaxTime - 1)}
    /\ co = [c \in Coros |-> NotCalled]
    /\ cancel_ok = FALSE
    /\ late = FALSE
    /\ gone = None
    /\ InitHistories /\ InitBackups

\* update_task and cancel_task run as coroutines of one event loop, and an
\* external agent rewrites the file.
NextCancelRace ==
    \/ (\E c \in Coros, status \in {RUNNING, COMPLETED} : update_task_read(c, status))
          /\ UNCHANGED <<fvars, tvars, wvars, svars, cvars, nvars, xvars, lvars, evars, avars, hvars, bvars>>
    \/ (\E c \in Coros : update_task_write(c))
          /\ UNCHANGED <<fvars, tvars, wvars, svars, cvars, nvars, xvars, lvars, evars, avars, hvars, bvars>>
    \/ (\E c \in Coros : cancel_task_read(c))
          /\ UNCHANGED <<fvars, tvars, wvars, svars, cvars, nvars, xvars, lvars, evars, avars, hvars, bvars>>
    \/ (\E c \in Coros : cancel_task_write(c))
          /\ UNCHANGED <<fvars, tvars, wvars, svars, cvars, nvars, xvars, lvars, evars, avars, hvars, bvars>>
    \/ (\E status \in {PENDING, RUNNING} : agent_rewrite(status))
          /\ UNCHANGED <<fvars, tvars, wvars, svars, cvars, nvars, xvars, lvars, evars, avars, hvars, bvars>>

SpecCancelRace == InitTaskFile /\ [][NextCancelRace]_vars

\* cleanup_completed_tasks runs as a coroutine beside update_task, and an
\* external agent rewrites the file.
NextCleanupRace ==
    \/ (\E c \in Coros : cleanup_scan(c))
          /\ UNCHANGED <<fvars, tvars, wvars, svars, cvars, nvars, xvars, lvars, evars, avars, hvars, bvars>>
    \/ (\E c \in Coros : cleanup_delete(c))
          /\ UNCHANGED <<fvars, tvars, wvars, svars, cvars, nvars, xvars, lvars, evars, avars, hvars, bvars>>
    \/ (\E c \in Coros, status \in {RUNNING, COMPLETED} : update_task_read(c, status))
          /\ UNCHANGED <<fvars, tvars, wvars, svars, cvars, nvars, xvars, lvars, evars, avars, hvars, bvars>>
    \/ (\E c \in Coros : update_task_write(c))
          /\ UNCHANGED <<fvars, tvars, wvars, svars, cvars, nvars, xvars, lvars, evars, avars, hvars, bvars>>
    \/ (\E status \in {PENDING, RUNNING} : agent_rewrite(status))
          /\ UNCHANGED <<fvars, tvars, wvars, svars, cvars, nvars, xvars, lvars, evars, avars, hvars, bvars>>

SpecCleanupRace == InitTaskFile /\ [][NextCleanupRace]_vars

\* Two writers of the same final path, each running write_json to its end.
InitRace == InitFile /\ InitTasks /\ InitWatch /\ InitStore /\ InitOther

NextRace ==
    \/ (\E w \in Writers : \E d \in Docs : write_json_open(w, d))
          /\ UNCHANGED <<tvars, wvars, svars, ovars>>
    \/ (\E w \in Writers : write_json_write(w)) /\ UNCHANGED <<tvars, wvars, svars, ovars>>
    \/ (\E w \in Writers : write_json_rename(w)) /\ UNCHANGED <<tvars, wvars, svars, ovars>>

SpecRace == InitRace /\ [][NextRace]_vars

\* The registry's single owner issues task operations one after another.
Init == IdleFile /\ InitTasks /\ InitWatch /\ InitStore /\ InitOther

Next ==
    \/ create_task /\ UNCHANGED <<fvars, wvars, svars, ovars>>
    \/ (\E id \in TaskIds, status \in TaskStatus \cup {None},
           result \in Results, error \in Errors :
             update_task(id, status, result, error)) /\ UNCHANGED <<fvars, wvars, svars, ovars>>
    \/ (\E id \in TaskIds : cancel_task(id)) /\ UNCHANGED <<fvars, wvars, svars, ovars>>
    \/ (\E id \in TaskIds : call_get_task_by_id(id)) /\ UNCHANGED <<fvars, wvars, svars, ovars>>
    \/ Tick /\ UNCHANGED <<fvars, wvars, svars, ovars>>

Spec == Init /\ [][Next]_vars

\* The owner registers callbacks and starts and stops watching, the watcher
\* coroutine runs between its suspension points, agents change the inbox.
InitWatching == IdleFile /\ InitTasks /\ InitWatch /\ InitStore /\ InitOther

NextWatch ==
    \/ on_message /\ UNCHANGED <<fvars, tvars, svars, ovars>>
    \/ start_watching /\ UNCHANGED <<fvars, tvars, svars, ovars>>
    \/ stop_watching /\ UNCHANGED <<fvars, tvars, svars, ovars>>
    \/ (\E w \in Watchers : watch_baseline(w)) /\ UNCHANGED <<fvars, tvars, svars, ovars>>
    \/ (\E w \in Watchers : watch_tick(w)) /\ UNCHANGED <<fvars, tvars, svars, ovars>>
    \/ (\E w \in Watchers : watch_callback(w)) /\ UNCHANGED <<fvars, tvars, svars, ovars>>
    \/ (\E w \in Watchers : watch_fanout(w)) /\ UNCHANGED <<fvars, tvars, svars, ovars>>
    \/ (\E f \in Files, kind \in Kinds : agent_write(f, kind)) /\ UNCHANGED <<fvars, tvars, svars, ovars>>
    \/ (\E f \in Files : agent_delete(f)) /\ UNCHANGED <<fvars, tvars, svars, ovars>>
    \/ dir_remove /\ UNCHANGED <<fvars, tvars, svars, ovars>>
    \/ dir_create /\ UNCHANGED <<fvars, tvars, svars, ovars>>

SpecWatch == InitWatching /\ [][NextWatch]_vars

\* The owner reads and scans the tasks directory, which agents and hands
\* write as well.
InitStoring == IdleFile /\ InitTasks /\ InitWatch /\ InitStore /\ InitOther

NextStore ==
    \/ (\E n \in Names : \E doc \in HandTasks(n) : hand_write_task(n, doc))
          /\ UNCHANGED <<fvars, tvars, wvars, ovars>>
    \/ (\E n \in Names : call_read_json(n)) /\ UNCHANGED <<fvars, tvars, wvars, ovars>>
    \/ (\E s \in TaskStatus \cup {None} : call_get_tasks(s)) /\ UNCHANGED <<fvars, tvars, wvars, ovars>>
    \/ (\E n \in Names : call_get_task(n)) /\ UNCHANGED <<fvars, tvars, wvars, ovars>>
    \/ (\E a \in 0..MaxAge, t \in Times : cleanup_completed_tasks(a, t))
          /\ UNCHANGED <<fvars, tvars, wvars, ovars>>

SpecStore == InitStoring /\ [][NextStore]_vars

\* The owner loads the agent configuration, which is edited by hand, and
\* initialises the workspace, which may be removed.
InitConfig == IdleFile /\ InitTasks /\ InitWatch /\ InitStore /\ InitOther

NextConfig ==
    \/ (\E doc \in HandConfigs : hand_write_config(doc)) /\ UNCHANGED <<fvars, tvars, wvars, ovars>>
    \/ hand_remove_config /\ UNCHANGED <<fvars, tvars, wvars, ovars>>
    \/ remove_workspace /\ UNCHANGED <<fvars, tvars, wvars, ovars>>
    \/ load_agent_config /\ UNCHANGED <<fvars, tvars, wvars, ovars>>
    \/ init_workspace /\ UNCHANGED <<fvars, tvars, wvars, ovars>>

SpecConfig == InitConfig /\ [][NextConfig]_vars

\* The owner sends, acknowledges and lists messages and initialises the
\* workspace again; agents post into the inbox and take from the outbox,
\* tasks are stored and the configuration is edited or removed meanwhile.
InitMessages == IdleFile /\ InitTasks /\ InitWatch /\ InitStore /\ InitOther

NextMessages ==
    \/ (\E n \in Names : \E doc \in HandMessages(n) : agent_post(n, doc))
          /\ UNCHANGED <<fvars, tvars, wvars, ovars>>
    \/ (\E n \in Names : agent_take(n)) /\ UNCHANGED <<fvars, tvars, wvars, ovars>>
    \/ (\E n \in Names : hand_write_task(n, TaskDocument(n, PENDING, NoStamp)))
          /\ UNCHANGED <<fvars, tvars, wvars, ovars>>
    \/ (\E doc \in {ConfigFile("garbage"), ConfigDocument(<<"a1">>)} : hand_write_config(doc))
          /\ UNCHANGED <<fvars, tvars, wvars, ovars>>
    \/ hand_remove_config /\ UNCHANGED <<fvars, tvars, wvars, ovars>>
    \/ (\E t \in MessageType : send_message(t)) /\ UNCHANGED <<fvars, tvars, wvars, ovars>>
    \/ (\E n \in Names : acknowledge_message(n)) /\ UNCHANGED <<fvars, tvars, wvars, ovars>>
    \/ call_get_inbox_messages /\ UNCHANGED <<fvars, tvars, wvars, ovars>>
    \/ call_get_outbox_messages /\ UNCHANGED <<fvars, tvars, wvars, ovars>>
    \/ init_workspace /\ UNCHANGED <<fvars, tvars, wvars, ovars>>

SpecMessages == InitMessages /\ [][NextMessages]_vars

----------------------------------------------------------------------------
(* Claims.                                                                 *)

\* C1: with one writer of the final path, a read_json that runs while
\* write_json is in progress returns a value the final path held during the
\* read - the previous complete document, the new complete document, or
\* absent only when the path had no entry - never partial content; and when
\* the writer has died before its rename the final path still holds exactly
\* what it held when the write began, a complete document or nothing.
C1_AtomicWrite ==
    /\ rpc = "done" => rres \in rcands
    /\ \A w \in Writers :
         wpc[w] = "crashed" =>
            /\ FileValue(dir, inode, FINAL) = wold[w]
            /\ FileValue(dir, inode, FINAL) \in Docs \cup {Absent}

\* C1 witness: the writer died with the whole temp file written, and a read
\* that overlapped the write has returned a complete document.
C1_Witness ==
    /\ wpc["w1"] = "crashed"
    /\ woff["w1"] = DocLen
    /\ rpc = "done"
    /\ rres \in Docs
    /\ Cardinality(rcands) > 1

\* C2: every stored task has completed_at set if and only if its status is
\* COMPLETED, FAILED or CANCELLED.
C2_CompletedAtIffTerminal ==
    \A id \in TaskIds :
        tasks[id] # NoTask =>
            ((tasks[id].completed_at # 0) <=> (tasks[id].status \in Terminal))

\* C3: after create_task, update_task(RUNNING), update_task(COMPLETED, R)
\* and nothing else on that id, the stored task is COMPLETED with result R,
\* started_at and completed_at are set and started_at <= completed_at.
C3_Lifecycle ==
    \A id \in TaskIds :
        phase[id].step = 3 =>
            /\ get_task(id).status = COMPLETED
            /\ get_task(id).result = phase[id].r
            /\ get_task(id).started_at # 0
            /\ get_task(id).completed_at # 0
            /\ get_task(id).started_at <= get_task(id).completed_at

\* C3 witness: the three-step sequence has run with a non-null result and
\* the clock moved between start and completion.
C3_Witness ==
    \E id \in TaskIds :
        /\ phase[id].step = 3
        /\ phase[id].r = "R1"
        /\ tasks[id].started_at < tasks[id].completed_at

\* C4: cancel_task on a stored PENDING or RUNNING task stores CANCELLED, so
\* that get_task reports CANCELLED afterwards, and returns true.
C4_CancelActive ==
    [][\A id \in TaskIds :
        (cancel_task(id) /\ tasks[id].status \in {PENDING, RUNNING}) =>
            /\ get_task(id)'.status = CANCELLED
            /\ ret' = "true"]_vars

\* C4 witness: a RUNNING task has been cancelled.
C4_Witness ==
    \E id \in TaskIds :
        /\ tasks[id].status = CANCELLED
        /\ tasks[id].started_at # 0
        /\ ret = "true"

\* C5: cancel_task on an id with no stored task, or on a COMPLETED, FAILED
\* or CANCELLED task, returns false and leaves every task file as it was.
C5_CancelRefused ==
    [][\A id \in TaskIds :
        (cancel_task(id) /\ (tasks[id] = NoTask \/ tasks[id].status \in Terminal)) =>
            /\ ret' = "false"
            /\ tasks' = tasks]_vars

\* C5 witness: the third operation was a refused cancel, after a task was
\* created and cancelled and the clock has moved on.
C5_Witness ==
    /\ ret = "false"
    /\ nops = 3
    /\ \E id \in TaskIds :
         tasks[id].status = CANCELLED /\ tasks[id].completed_at < now

\* The files the live watchers still have to pass to the callback.
Queued == {f \in Files : \E w \in Watchers :
              Live(w) /\ \E i \in 1..Len(watch[w].queue) : watch[w].queue[i] = f}

\* C6 as stated: a valid file that appears between two ticks and is in place
\* at the later tick has, once that tick is through with it, been passed
\* exactly once to every registered message callback.
C6_AppearedDeliveredOnce ==
    [][\A f \in Files :
        (life[f] \in {"stale", "obs", "obsS"} /\ life'[f] \in {"dlv", "done", "doneS"}) =>
            \A cb \in 1..ncb : calls'[f][cb] = 1]_vars

\* C6 amended: a valid file whose name is not in the set the watcher last
\* recorded, that is in place at the next listing and stays unchanged until
\* the watcher has read it, is among the new files of that tick, has been
\* passed exactly once to every registered message callback when its
\* delivery ends, and is not passed again while it stays in place.
C6_NewNameDeliveredOnce ==
    /\ [](\A f \in Files : life[f] = "obs" => f \in Queued)
    /\ [](\A f \in Files : life[f] \in {"fresh", "obs", "dlv", "done"} =>
                \A cb \in Callbacks : calls[f][cb] <= 1)
    /\ [][\A f \in Files :
            (life[f] = "obs" /\ life'[f] \in {"dlv", "done"}) =>
                \A cb \in 1..ncb : calls'[f][cb] = 1]_vars
    /\ [][\A f \in Files :
            (life[f] \in {"dlv", "done"} /\ life'[f] \in {"dlv", "done"}) =>
                calls'[f] = calls[f]]_vars

\* C6 witness: a new file has been delivered to two callbacks and recorded.
C6_Witness ==
    \E f \in Files :
        /\ life[f] = "done"
        /\ ncb = MaxCallbacks
        /\ \A cb \in Callbacks : calls[f][cb] = 1

\* C7: a file created after a listing that did not hold its name, and
\* deleted before the next listing, is never passed to the callback.
C7_VanishedNeverReported ==
    \A f \in Files : life[f] = "ghost" => pcalls[f] = 0 /\ calls[f] = ZeroCalls

\* C7 witness: a file came and went between two listings while another file
\* was being delivered.
C7_Witness ==
    \E f \in Files, w \in Watchers :
        /\ life[f] = "ghost"
        /\ watch[w].pc \in {"deliver", "fanout"}

\* C8: a file that was in the directory at the baseline is not passed to
\* the callback as long as it remains there.
C8_BaselineNeverReported ==
    \A f \in Files : life[f] = "base" => pcalls[f] = 0 /\ calls[f] = ZeroCalls

\* C8 witness: a baseline file is still there after a later file has been
\* listed, delivered and recorded.
C8_Witness ==
    \E f, g \in Files : life[f] = "base" /\ life[g] = "done"

\* C9: no exception of the callback ends the loop: the watcher never dies
\* of it, the new files of a tick stay queued until their callback has run,
\* and every new file gets its callback exactly once.
C9_CallbackErrorContained ==
    /\ \A w \in Watchers : watch[w].pc # "crashed"
    /\ \A f \in Files : life[f] = "obs" => f \in Queued
    /\ \A f \in Files : life[f] \in {"dlv", "done"} => pcalls[f] = 1

\* C9 witness: a callback has raised on the first file and the new file
\* after it has had its callback.
C9_Witness ==
    /\ raised
    /\ inbox[1] = "malformed"
    /\ \E f \in Files : f > 1 /\ life[f] \in {"dlv", "done"} /\ pcalls[f] = 1

\* Watcher w calls a message callback in this step.
Invoked(w) ==
    \/ watch[w].pc = "deliver" /\ watch'[w].pc = "fanout"
    \/ /\ watch[w].pc = "fanout"
       /\ watch'[w].pc = "fanout"
       /\ watch'[w].cbidx = watch[w].cbidx + 1

\* C10 as stated: at most one watcher runs at a time, start_watching with a
\* watcher set starts none, and stop_watching clears the handle and leaves
\* no watcher that calls a callback before the next start_watching: every
\* callback is called by the watcher the handle refers to.
C10_SingleWatcher ==
    /\ [](Cardinality({w \in Watchers : Live(w)}) <= 1)
    /\ [][(start_watching /\ watcher_task # 0) => UNCHANGED <<watcher_task, nwatch, watch>>]_vars
    /\ [][stop_watching => watcher_task' = 0]_vars
    /\ [][\A w \in Watchers : Invoked(w) => watcher_task = w]_vars

\* C10 amended: every watcher whose cancellation has not been requested is
\* the one the handle refers to (so there is at most one); start_watching
\* with a watcher set starts none; stop_watching clears the handle and kills
\* a suspended watcher on the spot; a watcher stopped from inside one of its
\* message callbacks calls no callback but the remaining ones of the message
\* it is delivering and ends with that fan-out.
C10_StopTakesEffect ==
    /\ [](\A w \in Watchers : (Live(w) /\ ~watch[w].must_cancel) => watcher_task = w)
    /\ [][(start_watching /\ watcher_task # 0) => UNCHANGED <<watcher_task, nwatch, watch>>]_vars
    /\ [][stop_watching => watcher_task' = 0]_vars
    /\ [][\A w \in Watchers :
            (stop_watching /\ watcher_task = w /\ watch[w].pc \in {"created", "sleep", "deliver"})
                => watch'[w].pc = "cancelled"]_vars
    /\ [][\A w \in Watchers : Invoked(w) => (watcher_task = w \/ Stopping(w))]_vars
    /\ [][\A w \in Watchers :
            Stopping(w) =>
                /\ watch'[w].pc \in {"fanout", "cancelled"}
                /\ watch'[w].pc = "fanout" => watch'[w].queue = watch[w].queue]_vars

\* C10 witness: a watcher stopped from inside its first callback has gone on
\* to the second one while the next watcher is already created.
C10_Witness ==
    \E w1, w2 \in Watchers :
        /\ Stopping(w1)
        /\ watch[w1].cbidx = 2
        /\ watcher_task = w2
        /\ watch[w2].pc = "created"

\* A task document the registry's own to_dict could have written.
WellFormed(doc) == doc.kind = "object" /\ doc.id # 0 /\ doc.status \in TaskStatus

\* A file whose content is not JSON.
NonJson(doc) == doc.kind \in {"garbage", "binary"}

\* The well-formed tasks of the directory with the status asked for, in the
\* order of their file names.
ExpectedTasks(status_filter) ==
    LET keep == {n \in Names : /\ WellFormed(tasks_dir[n])
                               /\ status_filter \in {None, tasks_dir[n].status}}
        names == Sorted(keep)
    IN [i \in 1..Len(names) |-> tasks_dir[names[i]]]

\* C11: when every file of the tasks directory is JSON, get_tasks and
\* get_task raise nothing and return exactly the well-formed tasks: a
\* document without id or with an unknown status counts as absent.
C11_MalformedTreatedAbsent ==
    [][(\A n \in Names : ~NonJson(tasks_dir[n])) =>
          /\ \A s \in TaskStatus \cup {None} :
                call_get_tasks(s) =>
                    sret'.exc = "none" /\ sret'.list = ExpectedTasks(s)
          /\ \A n \in Names :
                call_get_task(n) =>
                    /\ sret'.exc = "none"
                    /\ sret'.list = IF WellFormed(tasks_dir[n])
                                    THEN <<tasks_dir[n]>> ELSE <<>>]_vars

\* C12: read_json returns None, and raises nothing, for a missing file and
\* for a file that is not JSON; and when every file of the tasks directory is
\* a well-formed task or not JSON, get_tasks raises nothing and returns
\* exactly the well-formed tasks.
C12_CorruptReadsAbsent ==
    [][/\ \A n \in Names :
            (call_read_json(n) /\ (tasks_dir[n].kind = "nofile" \/ NonJson(tasks_dir[n])))
                => sret'.exc = "none" /\ sret'.list = <<>>
       /\ (\A n \in Names : \/ tasks_dir[n].kind = "nofile"
                            \/ NonJson(tasks_dir[n])
                            \/ WellFormed(tasks_dir[n])) =>
            \A s \in TaskStatus \cup {None} :
                call_get_tasks(s) =>
                    sret'.exc = "none" /\ sret'.list = ExpectedTasks(s)]_vars

\* The task files cleanup has to remove: terminal, with a completed_at that
\* parses to a time before the cutoff.
Expired(cutoff) ==
    {n \in Names : /\ WellFormed(tasks_dir[n])
                   /\ tasks_dir[n].status \in Terminal
                   /\ tasks_dir[n].completed_at.form \in {"naive", "aware"}
                   /\ tasks_dir[n].completed_at.t < cutoff}

\* C13: on a tasks directory of well-formed tasks, each in the file named
\* after its id, cleanup_completed_tasks raises nothing, removes exactly the
\* terminal tasks whose completed_at parses to a time before now - max_age,
\* leaves every other file as it was and returns the number removed.
C13_CleanupExact ==
    [][(\A n \in Names : \/ tasks_dir[n].kind = "nofile"
                         \/ WellFormed(tasks_dir[n]) /\ tasks_dir[n].id = n) =>
          \A a \in 0..MaxAge, t \in Times :
              cleanup_completed_tasks(a, t) =>
                  /\ sret'.exc = "none"
                  /\ tasks_dir' = [n \in Names |->
                                     IF n \in Expired(t - a) THEN TaskFile("nofile")
                                     ELSE tasks_dir[n]]
                  /\ sret'.n = Cardinality(Expired(t - a))]_vars

\* C17: for every status s, get_tasks(s) returns exactly the well-formed
\* stored tasks whose status is s (so K tasks for RUNNING and N-K for PENDING
\* when K of N created tasks were moved to RUNNING).
C17_FilterExact ==
    [][\A s \in TaskStatus :
          call_get_tasks(s) => sret'.exc = "none" /\ sret'.list = ExpectedTasks(s)]_vars

\* The well-formed entries of a configuration document, in document order.
RECURSIVE WellFormedEntries(_)
WellFormedEntries(entries) ==
    IF entries = <<>> THEN <<>>
    ELSE IF Head(entries) \in AgentIds
    THEN <<Head(entries)>> \o WellFormedEntries(Tail(entries))
    ELSE WellFormedEntries(Tail(entries))

\* C19: after load_agent_config on a flux_agents.json that is a JSON object,
\* the call has returned and registered_agents is exactly the list of its
\* well-formed entries in document order, whatever was registered before.
C19_LoadReplaces ==
    [][(load_agent_config /\ flux_agents.kind = "object") =>
          /\ sret'.exc = "none"
          /\ registered_agents' = WellFormedEntries(flux_agents.agents)
          /\ sret'.list = registered_agents']_vars

\* C20: load_agent_config with flux_agents.json absent returns the empty
\* list; the file then holds the default configuration when the workspace
\* directory exists, and nothing is written when it does not.
C20_MissingConfig ==
    [][(load_agent_config /\ flux_agents.kind = "nofile") =>
          /\ sret'.exc = "none"
          /\ sret'.list = <<>>
          /\ registered_agents' = <<>>
          /\ flux_agents' = IF workspace_dir THEN default_config ELSE ConfigFile("nofile")
          /\ UNCHANGED <<workspace_dir, tasks_dir, inbox_dir, outbox_dir, orchestrator>>]_vars

\* C20 witness: the workspace was removed after a hand had edited the
\* configuration, and load_agent_config has then returned the empty list.
C20_Witness ==
    /\ sret.op = "load_agent_config"
    /\ sret.exc = "none"
    /\ sret.list = <<>>
    /\ ~workspace_dir
    /\ flux_agents.kind = "nofile"
    /\ nhand > 0

\* Whether a document is among those a call returned.
Among(doc, out) == \E i \in 1..Len(out.list) : out.list[i] = doc

\* C14: send_message returns a message with sender "flux-studio" and writes
\* it as one new file of the outbox, named after its id; the inbox, the
\* tasks and every other file stay as they were, so that get_outbox_messages
\* returns the message and get_inbox_messages does not.
C14_SendOutboxOnly ==
    [][\A t \in MessageType :
          send_message(t) =>
              LET message == sret'.list[1]
              IN /\ sret'.exc = "none"
                 /\ message.sender = "flux-studio"
                 /\ outbox_dir[message.id].kind = "nofile"
                 /\ outbox_dir' = [outbox_dir EXCEPT ![message.id] = message]
                 /\ UNCHANGED <<inbox_dir, tasks_dir, orchestrator, flux_agents>>
                 /\ get_outbox_messages(workspace_dir', outbox_dir').exc = "none"
                 /\ Among(message, get_outbox_messages(workspace_dir', outbox_dir'))
                 /\ ~Among(message, get_inbox_messages(workspace_dir', inbox_dir'))]_vars

\* C14 witness: a second message has been sent while the inbox holds a
\* message of an agent and a task is stored.
C14_Witness ==
    /\ sret.op = "send_message"
    /\ msgs = 2
    /\ \E n \in Names : inbox_dir[n].kind = "object"
    /\ \E n \in Names : tasks_dir[n].kind = "object"
    /\ \A n \in Names : outbox_dir[n].kind = "object"

\* C15: acknowledge_message(id) removes the inbox file msg_<id>.json and
\* changes no other file; it returns true exactly when that file existed.
C15_AcknowledgeExact ==
    [][\A id \in Names :
          acknowledge_message(id) =>
              /\ inbox_dir' = [inbox_dir EXCEPT ![id] = MessageFile("nofile")]
              /\ UNCHANGED <<outbox_dir, tasks_dir, orchestrator, flux_agents>>
              /\ sret'.exc = "none"
              /\ (sret'.n = 1) <=> (inbox_dir[id].kind # "nofile")
              /\ sret'.n \in {0, 1}]_vars

\* C15 witness: a message was acknowledged while another inbox file and a
\* sent message were there, and they still are.
C15_Witness ==
    /\ sret.op = "acknowledge_message"
    /\ sret.n = 1
    /\ \E n \in Names : inbox_dir[n].kind # "nofile"
    /\ \E n \in Names : outbox_dir[n].kind = "object"

C18_LastRenameWins ==
    /\ [](FileValue(dir, inode, FINAL) # Torn)
    /\ [][\A w \in Writers :
            write_json_rename(w) =>
                /\ wpc'[w] = "idle"
                /\ FileValue(dir', inode', FINAL) = wdoc[w]]_vars

\* How update_task's status argument alone changes a stored task.
StatusDictates(task, status, error, t) ==
    IF status = RUNNING THEN [task EXCEPT !.status = RUNNING, !.started_at = t]
    ELSE IF status = FAILED
    THEN [task EXCEPT !.status = FAILED, !.completed_at = t,
                      !.error = IF error = None THEN "Unknown error" ELSE error]
    ELSE IF status = CANCELLED THEN [task EXCEPT !.status = CANCELLED, !.completed_at = t]
    ELSE IF status = PENDING THEN [task EXCEPT !.status = PENDING]
    ELSE task

\* C21: update_task and get_task on an id with no stored task return None
\* (no exception), and update_task then leaves the tasks directory as it was.
C21_NotFoundIsNone ==
    [][\A id \in TaskIds :
          tasks[id] = NoTask =>
              /\ call_get_task_by_id(id) => (ret' = None /\ tasks' = tasks)
              /\ \A status \in TaskStatus \cup {None}, result \in Results, error \in Errors :
                    update_task(id, status, result, error) =>
                        (ret' = None /\ tasks' = tasks)]_vars

\* C21 witness: an update with a status and a result was the third
\* operation and found no task, while another task is stored.
C21_Witness ==
    /\ ret = None
    /\ nops = 3
    /\ \E id \in TaskIds : tasks[id] # NoTask
    /\ \E id \in TaskIds : tasks[id] = NoTask

\* C22: update_task with a non-null result and a status other than COMPLETED
\* (or no status) stores the supplied result; the status, the timestamps and
\* the error become what the status argument alone dictates, and stay as
\* they were when no status is given.
C22_ResultSideChannel ==
    [][\A id \in TaskIds, status \in (TaskStatus \ {COMPLETED}) \cup {None},
          result \in Results \ {None}, error \in Errors :
          (update_task(id, status, result, error) /\ tasks[id] # NoTask) =>
              /\ tasks'[id].result = result
              /\ tasks'[id] = [StatusDictates(tasks[id], status, error, now)
                                  EXCEPT !.result = result]
              /\ \A other \in TaskIds \ {id} : tasks'[other] = tasks[other]]_vars

\* C22 witness: a RUNNING task carries a progress result.
C22_Witness ==
    \E id \in TaskIds :
        /\ tasks[id].status = RUNNING
        /\ tasks[id].result = "R1"
        /\ tasks[id].completed_at = 0

\* C27: a stored task has started_at set if and only if its status has been
\* RUNNING at some point since its creation.
C27_StartedAtIffRan ==
    \A id \in TaskIds :
        tasks[id] # NoTask => ((tasks[id].started_at # 0) <=> ran[id])

\* C27 witness: a task that was RUNNING has been put back to PENDING, next to
\* a task that never ran.
C27_Witness ==
    \E id \in TaskIds, other \in TaskIds :
        /\ ran[id] /\ tasks[id].status = PENDING
        /\ tasks[other] # NoTask /\ ~ran[other]

\* C23: for every task and message x, from_dict(to_dict(x)) equals x in
\* every field, the enum fields and the null fields included.
C23_RoundTrip ==
    decoded # Nothing => decoded = value

\* C23 witness: a FAILED task with a null started_at, a tuple as result and
\* an error has been encoded and decoded.
C23_Witness ==
    /\ decoded # Nothing
    /\ value.cls = "AgentTask"
    /\ value.status = Member("TaskStatus", "FAILED")
    /\ value.started_at = PyNone
    /\ value.completed_at # PyNone
    /\ value.result.py = "tuple"

\* C24: after create_task or update_task has returned a task t, get_task
\* (and each element get_tasks builds the same way) gives a task equal to t
\* in every field.
C24_ReadYourWrites ==
    got # Nothing => got = value

\* C25: while watching is active, a task whose file is written by
\* create_task, update_task or cancel_task is eventually passed to the
\* callbacks registered with on_task_update.
C25_TaskCallbackInvoked ==
    \A id \in TaskIds : due[id] ~> (tcalls[id] > 0)

\* C26: when the directories deny writes, a write or a delete on a file
\* that exists surfaces as an error of the registry operation: send_message
\* raises, and delete_task and acknowledge_message do not return false
\* while the file is still there.
C26_FaultsSurface ==
    [][readonly =>
          /\ \A t \in MessageType : send_message(t) => sret'.exc # "none"
          /\ \A id \in Names :
                (acknowledge_message(id) /\ inbox_dir[id].kind # "nofile") =>
                    sret'.exc # "none"
          /\ \A id \in Names :
                (delete_task(id) /\ tasks_dir[id].kind # "nofile") =>
                    sret'.exc # "none"]_vars

\* C28: the callback is called for the new files of one tick in ascending
\* order of their names, a file of an earlier tick before every file of a
\* later tick, and while the callback of a file is running it is the file
\* called for last (the callback of the next file has not started).
C28_DeliveryOrder ==
    \A w \in Watchers :
        /\ \A i, j \in 1..Len(dlog[w]) :
              i < j => \/ dlog[w][i].batch < dlog[w][j].batch
                       \/ /\ dlog[w][i].batch = dlog[w][j].batch
                          /\ dlog[w][i].file < dlog[w][j].file
        /\ watch[w].pc = "fanout" =>
              /\ dlog[w] # <<>>
              /\ dlog[w][Len(dlog[w])].file = Head(watch[w].queue)

\* C28 witness: two files found by the same tick have both been passed to
\* the callback, and the callback of the second is running.
C28_Witness ==
    \E w \in Watchers :
        /\ Len(dlog[w]) = 2
        /\ dlog[w][1].batch = dlog[w][2].batch
        /\ watch[w].pc = "fanout"

\* C29: in a freshly started editor every printable key pressed is
\* inserted into the text in order and sets is_modified (h, e, l, l, o
\* gives "hello"); new_file then gives empty text, no current file and
\* is_modified false.
C29_TypingInsertsText ==
    /\ [][\A key \in Keys :
            (on_key(key) /\ Printable(key) /\ text_area = typed) =>
                (text_area' = typed' /\ is_modified')]_vars
    /\ [][new_file => (text_area' = <<>> /\ current_file' = None /\ ~is_modified')]_vars

\* C30: when the application is started in a project directory without
\* .flux-studio, the workspace tree is complete once the app has mounted
\* (tasks/, messages/inbox/, messages/outbox/ and orchestrator.json exist),
\* and a task submitted from the agent panel is persisted without an error.
C30_MountedWorkspaceComplete ==
    /\ [](( ~workspace_exists_in(project) /\ app = "mounted") =>
            {TASKS, INBOX, OUTBOX, MARKER} \subseteq disk)
    /\ [][(on_agent_panel_task_submitted /\ ~workspace_exists_in(project)) =>
            (app_exc' = "none" /\ persisted' = persisted + 1)]_vars

\* C31: load_agent_config writes flux_agents.json only when no such file
\* exists; an existing flux_agents.json is left as it is by a load, whatever
\* it holds (unparsable text and the empty object included).
C31_LoadKeepsExistingConfig ==
    [][(load_agent_config /\ flux_agents.kind # "nofile") =>
          flux_agents' = flux_agents]_vars

\* C32: if cancel_task(id) returned true, then once no operation on the id
\* is in flight the stored status is CANCELLED, unless an update_task or an
\* external write on the id began after cancel_task returned.
C32_CancelSurvives ==
    (cancel_ok /\ ~late /\ \A c \in Coros : co[c].pc # "write") =>
        stored.status = CANCELLED

\* C33: cleanup_completed_tasks never removes a task file whose stored
\* status is PENDING or RUNNING at the moment the file is removed.
C33_CleanupSparesActive == gone \notin {PENDING, RUNNING}

\* The ids of the messages a call returned.
ReturnedIds(out) == {out.list[i].id : i \in 1..Len(out.list)}

\* C34: every message returned by get_inbox_messages can be consumed by
\* its id, whatever the name of the file an agent wrote it under:
\* acknowledge_message(m.id) returns true and m is not returned by the next
\* get_inbox_messages.
C34_ListedIsConsumable ==
    [][\A id \in Names :
          (/\ acknowledge_message(id)
           /\ id \in ReturnedIds(get_inbox_messages(workspace_dir, inbox_dir)))
          => /\ sret'.n = 1
             /\ id \notin ReturnedIds(get_inbox_messages(workspace_dir', inbox_dir'))]_vars

\* C35: a file that appeared in the inbox while no watcher was active
\* (before the first start_watching, or between a stop_watching and the
\* start_watching after it) and is there when the next watcher takes its
\* baseline is not passed to the callbacks while it stays there.
C35_IdleFilesNeverReported == \A f \in Files : ~passed[f]

\* C35 witness: a file that appeared after a stop_watching stands in the
\* baseline of the second watcher, which has delivered a later file.
C35_Witness ==
    \E f, g \in Files :
        /\ covered[f]
        /\ nwatch = 2
        /\ life[g] = "done"

\* ---------------------------------------------------------------------
\* The editor with files: load_file, save_file and the debounced autosave.
\* ---------------------------------------------------------------------

\* History: the text the editor holds after a step is one it held under the
\* file that is current after the step; a changed text is no longer the
\* saved one.
Holding ==
    /\ held' = [P \in EditPaths |->
                   IF current_file' = P THEN held[P] \cup {text_area'} ELSE held[P]]

\* The printable keys pressed in this layer.
MaxEdits == 2

\* A key press in the editor, the files left alone.
key_pressed(key) ==
    /\ Len(typed) < MaxEdits
    /\ on_key(key)
    /\ clean' = IF text_area' # text_area THEN [P \in EditPaths |-> FALSE] ELSE clean
    /\ Holding
    /\ UNCHANGED <<on_disk, backup_files>>

\* MarkdownEditor.load_file, lines 359-382: the text of the file replaces
\* the editor's with Changed prevented; a file that cannot be opened is
\* reported and nothing changes. _autosave_timer is not touched.
load_file(path) ==
    /\ IF on_disk[path].exists
       THEN /\ text_area' = on_disk[path].text
            /\ cursor' = 0
            /\ current_file' = path
            /\ is_modified' = FALSE
            /\ clean' = IF text_area' # text_area
                        THEN [P \in EditPaths |-> FALSE] ELSE clean
       ELSE UNCHANGED <<text_area, cursor, current_file, is_modified, clean>>
    /\ Holding
    /\ UNCHANGED <<vim_mode, command_buffer, typed, autosave_timer, on_disk, backup_files>>

\* AutoSaveManager.cleanup_backup, lines 85-89.
cleanup_backup(files, original_path) == [files EXCEPT ![original_path] = NoFile]

\* AutoSaveManager.create_backup, lines 76-83.
create_backup(files, content, original_path) ==
    IF original_path = None THEN files
    ELSE [files EXCEPT ![original_path] = File(content)]

\* MarkdownEditor.save_file, lines 384-409, path being None for a plain save:
\* the text is written to the target, which becomes the current file, and
\* the backup of the target is removed. _autosave_timer is not touched.
save_file(path) ==
    LET target_path == IF path # None THEN path ELSE current_file IN
    /\ IF target_path = None
       THEN UNCHANGED <<on_disk, current_file, is_modified, backup_files, clean>>
       ELSE /\ on_disk' = [on_disk EXCEPT ![target_path] = File(text_area)]
            /\ current_file' = target_path
            /\ is_modified' = FALSE
            /\ backup_files' = cleanup_backup(backup_files, target_path)
            /\ clean' = [clean EXCEPT ![target_path] = TRUE]
    /\ UNCHANGED <<vim_mode, command_buffer, text_area, cursor, typed, autosave_timer>>
    /\ Holding

\* MarkdownEditor._debounce_autosave, lines 330-338, when the sleep of the
\* pending timer is over: the content the timer was created with is backed
\* up under the file that is current now.
debounce_autosave ==
    /\ autosave_timer.state = "pending"
    /\ backup_files' = IF current_file # None
                       THEN create_backup(backup_files, autosave_timer.content, current_file)
                       ELSE backup_files
    /\ autosave_timer' = Ended
    /\ UNCHANGED <<vim_mode, command_buffer, text_area, cursor, is_modified,
                   current_file, typed, on_disk, clean, held>>

\* The keys pressed in this layer.
EditKeys == {"i", "e", "escape"}

\* The editor just started, and an agent or the user having left files in
\* the project.
InitAutosave ==
    /\ IdleFile /\ InitTasks /\ InitWatch /\ InitStore
    /\ InitEditor /\ InitNotify /\ InitApp
    /\ value = Nothing /\ encoded = Nothing /\ decoded = Nothing
    /\ text = Nothing /\ got = Nothing
    /\ readonly = FALSE
    /\ batch = [w \in Watchers |-> 0]
    /\ dlog = [w \in Watchers |-> <<>>]
    /\ InitInterleave /\ InitHistories
    /\ on_disk \in [EditPaths -> {NoFile, File(<<>>), File(<<"h">>)}]
    /\ backup_files = [P \in EditPaths |-> NoFile]
    /\ clean = [P \in EditPaths |-> FALSE]
    /\ held = [P \in EditPaths |-> {}]

NextAutosave ==
    \/ \E key \in EditKeys :
          /\ key_pressed(key)
          /\ UNCHANGED <<fvars, tvars, wvars, svars, cvars, nvars, xvars, lvars, avars,
                         rvars, hvars>>
    \/ \E path \in EditPaths :
          /\ load_file(path)
          /\ UNCHANGED <<fvars, tvars, wvars, svars, cvars, nvars, xvars, lvars, avars,
                         rvars, hvars>>
    \/ \E path \in EditPaths \cup {None} :
          /\ save_file(path)
          /\ UNCHANGED <<fvars, tvars, wvars, svars, cvars, nvars, xvars, lvars, avars,
                         rvars, hvars>>
    \/ /\ debounce_autosave
       /\ UNCHANGED <<fvars, tvars, wvars, svars, cvars, nvars, xvars, lvars, avars,
                      rvars, hvars>>

SpecAutosave == InitAutosave /\ [][NextAutosave]_vars

\* C36: the watcher calls the callback at most once for a file name for as
\* long as the name is present at every tick, also when the content is
\* rewritten or was unparsable when first observed; a name that was absent
\* at one tick and is present at a later tick is reported again.
C36_OncePerPresence ==
    /\ \A f \in Files : ncalls[f] <= 1
    /\ \A f \in owed : f \in Queued

C38_SavedHasNoBackup ==
    \A P \in EditPaths : clean[P] => ~backup_files[P].exists

\* C39: every autosave backup written for a path holds a text the editor
\* held while that path was the current file; the text of a file A is never
\* written to the backup of a file B that became current before the timer
\* fired.
C39_BackupIsOfItsFile ==
    \A P \in EditPaths :
        backup_files[P].exists => backup_files[P].text \in held[P]

====
